---- MODULE Spec2Model ----
(***************************************************************************)
(* Model of src/phyp/phyp_driver.c: the uuid correspondence table          *)
(* (the phypUUIDTable functions), its local and remote persisted copies,   *)
(* and the non-blocking ssh protocol loops of phypExec,                    *)
(* phypUUIDTable_Push and phypUUIDTable_Pull.                              *)
(*                                                                         *)
(* The specifications share the variables:                                 *)
(*   Spec      - one process opening, using and closing a connection;      *)
(*               every driver entry point is one action.                   *)
(*   SpecHist  - Spec, remembering the uuid first looked up for each id.   *)
(*   SpecProto - one call of phypExec / Push / Pull, one action per        *)
(*               libssh2 call or readiness wait.                           *)
(*   SpecTwice - a table pushed and pulled twice, call after call.         *)
(*   SpecPath  - Spec, remembering the branch phypUUIDTable_Init took.     *)
(*   SpecFile  - phypUUIDTable_WriteFile and ReadFile on the bytes.        *)
(*   SpecText  - phypExecBuffer and phypExecInt on a returned text.        *)
(*   SpecAuth  - openSSHSession, one action per stage, and the failure     *)
(*               of phypConnectOpen after it.                              *)
(*   SpecProtoFair - SpecProto where a step that can be taken is taken.    *)
(*   SpecShared - two connections of one process, one step of a table      *)
(*               operation of either at a time.                            *)
(*   SpecDestroy - phypDomainDestroyFlags, call after call, remembering    *)
(*               the exit status of rmsyscfg.                              *)
(***************************************************************************)
EXTENDS Integers, Sequences, FiniteSets, TLC

(***************************************************************************)
(* Bounds of the model.                                                    *)
(***************************************************************************)
\* lpar ids the remote host hands out are 1..MaxId
MaxId == 2
\* the table never grows beyond MaxLen entries (guard of Create)
MaxLen == 2
\* uuids are drawn from 1..MaxUuid; 0 is the all-zero uuid
MaxUuid == 3

\* a transfer or a write that stops early keeps at most MaxKeep fields
MaxKeep == 1

Ids == 1..MaxId

\* value of a removed entry's id (line 552) and the zeroed uuid (line 553)
TOMBSTONE == -1
ZERO_UUID == 0

VARIABLES
    conn,          \* "closed" | "open": whether phypConnectOpen has succeeded
    uuid_table,    \* [nlpars, lpars]: the in-memory table of the connection
    local_file,    \* [exists, data]: ./uuid_table, a sequence of fields
    remote_file,   \* [exists, data]: /home/<user>/libvirt_uuid_table
    live,          \* set of lpar ids that exist on the remote host
    next_uuid,     \* next value virUUIDGenerate hands out
    last_op,       \* record describing the driver call that just returned
    first_uuid     \* history, for the ids it is kept for: id -> uuid first
                   \* returned by a lookup of the lpar that now has the id
                   \* (the zero uuid: none yet)

\* state of one running call of phypExec, phypUUIDTable_Push or
\* phypUUIDTable_Pull (SpecProto)
VARIABLES
    fn,            \* "none" | "exec" | "push" | "pull": the function called
    pc,            \* the libssh2 call the function is about to make, "wait"
                   \* inside waitsocket, "idle" before and "done" after;
                   \* "fault" when the process died in the call
    resume,        \* the call a waitsocket that returns goes back to
    last,          \* [call, rc]: the library call made last and its result;
                   \* for a waitsocket the descriptor it polled (fd)
    budget,        \* would-block results the transport may still give
    n_eagain,      \* per call: would-block results it has returned
    n_wait,        \* per call: waitsocket calls made in its retry loop
    hards,         \* calls that have returned a hard error so far
    channel,       \* "none" | "open" | "freed": the channel of this call
    buffer,        \* phypExec: the read buffer (buffer_size bytes)
    tex_ret,       \* phypExec: the accumulated output
    delivered,     \* history: the bytes libssh2_channel_read has delivered
    reads_left,    \* successful reads the remote command still produces
    remote_status, \* exit status of the remote command, once it has ended
    exit_status,   \* *exit_status as phypExec leaves it
    ret,           \* "none" | "NULL" | "output" for phypExec, else 0 or -1
    xfer           \* Push and Pull: [nread, sent, ptr, off, got, size]

\* history of the calls SpecTwice makes one after the other
VARIABLES
    log            \* per returned call: the function, its return value and
                   \* the copy it left behind

\* state of openSSHSession (SpecAuth)
VARIABLES
    ssh            \* conn->uri->user, the callback and the key files it is
                   \* given, its position, and what it has done so far

\* the connections of one process, each used by a thread of its own
\* (SpecShared): they share the working directory and so ./uuid_table
VARIABLES
    peers          \* per connection: its table, the copy on its host, and
                   \* the step of phypUUIDTable_Init or of a mutation it is at

tonly == <<conn, uuid_table, live, next_uuid, last_op, first_uuid>>

hist == <<log, ssh, peers>>

files == <<local_file, remote_file>>

pvars == <<fn, pc, resume, last, budget, n_eagain, n_wait, hards, channel,
           buffer, tex_ret, delivered, reads_left, remote_status, exit_status,
           ret, xfer>>

vars == <<tonly, files, pvars, hist>>

----------------------------------------------------------------------------
(***************************************************************************)
(* Helpers on sequences.                                                   *)
(***************************************************************************)
Prefix(s, n) == SubSeq(s, 1, n)

RECURSIVE SortedSeq(_)
\* the id listing of lssyscfg: ascending ids, one per line
SortedSeq(S) ==
    IF S = {} THEN <<>>
    ELSE LET m == CHOOSE x \in S : \A y \in S : x <= y
         IN  <<m>> \o SortedSeq(S \ {m})

----------------------------------------------------------------------------
(***************************************************************************)
(* phypGetLparUUID: linear scan, first match wins.                         *)
(***************************************************************************)
RECURSIVE GetLparUUIDFrom(_, _, _, _)
GetLparUUIDFrom(lpars, nlpars, lpar_id, i) ==
    IF i > nlpars THEN [rc |-> -1, uuid |-> ZERO_UUID]
    ELSE IF lpars[i].id = lpar_id THEN [rc |-> 0, uuid |-> lpars[i].uuid]
    ELSE GetLparUUIDFrom(lpars, nlpars, lpar_id, i + 1)

\* the scan starting one entry late
phypGetLparUUID_SkipFirst(tab, lpar_id) ==
    GetLparUUIDFrom(tab.lpars, tab.nlpars, lpar_id, 2)

phypGetLparUUID(tab, lpar_id) ==
    GetLparUUIDFrom(tab.lpars, tab.nlpars, lpar_id, 1)

----------------------------------------------------------------------------
(***************************************************************************)
(* The persisted form: per entry the id (sizeof(int) bytes) and then the   *)
(* uuid (VIR_UUID_BUFLEN bytes), no header.  A file is the sequence of     *)
(* these fields; a transfer or a write that stops early leaves a prefix.   *)
(***************************************************************************)
NoFile == [exists |-> FALSE, data |-> <<>>]

\* a loop that writes the ids and leaves the uuids out
WriteRecords_IdOnly(lpars, nlpars, i) == [j \in 1..nlpars |-> lpars[j].id]

RECURSIVE WriteRecords(_, _, _)
\* the loop of lines 433-446: entry i's id, then its uuid
WriteRecords(lpars, nlpars, i) ==
    IF i > nlpars THEN <<>>
    ELSE <<lpars[i].id, lpars[i].uuid>> \o WriteRecords(lpars, nlpars, i + 1)

WriteOutcomes == {"ok", "creat_fail", "write_fail", "close_fail"}

\* phypUUIDTable_WriteFile: creat truncates ./uuid_table, the loop writes the
\* fields, VIR_CLOSE ends it.  k: fields written before a failing safewrite.
phypUUIDTable_WriteFile(tab, file, out, k) ==
    LET all == WriteRecords(tab.lpars, tab.nlpars, 1)
    IN  CASE out = "creat_fail" -> [ret |-> -1, file |-> file]
          [] out = "write_fail" ->
                [ret |-> -1,
                 file |-> [exists |-> TRUE,
                           data |-> Prefix(all, IF k < Len(all) THEN k ELSE 0)]]
          [] out = "close_fail" ->
                [ret |-> -1, file |-> [exists |-> TRUE, data |-> all]]
          [] OTHER -> [ret |-> 0, file |-> [exists |-> TRUE, data |-> all]]

RECURSIVE ReadRecords(_, _, _, _)
\* the loop of lines 618-636: read(fd, &id, sizeof(int)), then
\* read(fd, uuid, VIR_UUID_BUFLEN); a short read of either ends it with -1
ReadRecords(data, nlpars, i, acc) ==
    IF i > nlpars THEN [ret |-> 0, lpars |-> acc]
    ELSE IF Len(data) < 2 * i - 1 THEN [ret |-> -1, lpars |-> acc]
    ELSE IF Len(data) < 2 * i
         THEN [ret |-> -1,
               lpars |-> Append(acc, [id |-> data[2 * i - 1], uuid |-> ZERO_UUID])]
    ELSE ReadRecords(data, nlpars, i + 1,
                     Append(acc, [id |-> data[2 * i - 1], uuid |-> data[2 * i]]))

\* outcomes of the allocations of the entry array and of its entries
\* (617 and 622, 786 and 788)
AllocOutcomes == {"ok", "array_fail", "entry_fail"}

\* phypUUIDTable_ReadFile: loads uuid_table->nlpars records from ./uuid_table.
\* When VIR_ALLOC_N of the array fails (617) the loop is skipped and the
\* function returns 0 (640) with no array; a failed VIR_ALLOC of an entry
\* (622) returns -1.
phypUUIDTable_ReadFile(nlpars, file, alloc) ==
    IF ~file.exists THEN [ret |-> -1, lpars |-> <<>>]
    ELSE IF alloc = "array_fail" THEN [ret |-> 0, lpars |-> <<>>]
    ELSE IF alloc = "entry_fail" THEN [ret |-> -1, lpars |-> <<>>]
    ELSE ReadRecords(file.data, nlpars, 1, <<>>)

----------------------------------------------------------------------------
(***************************************************************************)
(* The two transfers, as the connection-level actions see them: the        *)
(* return value and the file the transfer leaves behind, for each way the  *)
(* code can leave the function.  SpecProto below runs the same functions   *)
(* one libssh2 call at a time.                                             *)
(***************************************************************************)
PushOutcomes == {"no_local", "send_fail", "sent", "torn"}

\* phypUUIDTable_Push.
\*   no_local  - stat or fopen of ./uuid_table fails (480-488): -1
\*   send_fail - libssh2_scp_send fails, not EAGAIN (496-498): -1
\*   sent      - every block is written: 0
\*   torn      - a write returns EAGAIN or an error: the inner loop ends
\*               (518-526), the next fread meets end of file, ret = 0 (529);
\*               the remote copy holds the k fields accepted before
phypUUIDTable_Push(local, remote, out, k) ==
    CASE out = "no_local" \/ ~local.exists -> [ret |-> -1, remote |-> remote]
      [] out = "send_fail" -> [ret |-> -1, remote |-> remote]
      [] out = "torn" /\ k < Len(local.data) ->
            [ret |-> 0, remote |-> [exists |-> TRUE, data |-> Prefix(local.data, k)]]
      [] OTHER -> [ret |-> 0, remote |-> [exists |-> TRUE, data |-> local.data]]

PullOutcomes ==
    {"no_channel", "creat_fail", "wait_read_fail", "close_fail", "short",
     "complete"}

\* phypUUIDTable_Pull.
\*   no_channel     - the open loop ends without a channel: libssh2_scp_recv
\*                    fails, not EAGAIN (673-676), because the remote file
\*                    is absent or for any other hard error, or waitsocket
\*                    fails (678-682): -1
\*   creat_fail     - creat of ./uuid_table fails (688-689): -1
\*   wait_read_fail - waitsocket fails in the read loop (717-721): -1, the
\*                    k fields read so far are in the local file
\*   close_fail     - VIR_CLOSE fails (726-730): -1
\*   short          - a read returns 0 or an error before got reaches the
\*                    size (709, 724): break, ret = 0 with k fields written
\*   complete       - got reaches fileinfo.st_size: 0
\* An absent remote file leaves only the failures of the open loop.
phypUUIDTable_Pull(remote, local, out, k) ==
    LET kk == IF k < Len(remote.data) THEN k ELSE 0
    IN  CASE ~remote.exists \/ out \in {"no_channel", "creat_fail"} ->
               [ret |-> -1, local |-> local]
          [] out = "wait_read_fail" ->
               [ret |-> -1, local |-> [exists |-> TRUE, data |-> Prefix(remote.data, kk)]]
          [] out = "close_fail" ->
               [ret |-> -1, local |-> [exists |-> TRUE, data |-> remote.data]]
          [] out = "short" /\ Len(remote.data) > 0 ->
               [ret |-> 0, local |-> [exists |-> TRUE, data |-> Prefix(remote.data, kk)]]
          [] OTHER -> [ret |-> 0, local |-> [exists |-> TRUE, data |-> remote.data]]

\* the outcomes Pull can have against the remote file as it is
PullOutcomesFor(remote) ==
    IF remote.exists THEN PullOutcomes ELSE {"no_channel"}

----------------------------------------------------------------------------
(***************************************************************************)
(* The in-memory table.                                                    *)
(***************************************************************************)
EmptyTable == [nlpars |-> 0, lpars |-> <<>>]

\* an entry of the array that was never allocated or filled: VIR_ALLOC_N
\* zeroes the array (617, 786)
NullEntry == [id |-> 0, uuid |-> ZERO_UUID]

\* the array of n entries of which the first Len(lpars) have been filled
Pad(lpars, n) ==
    [i \in 1..n |-> IF i <= Len(lpars) THEN lpars[i] ELSE NullEntry]

\* lpars holds the allocated entries of the array.  The table is usable
\* when there are nlpars of them.  They are fewer when the load of line 617
\* failed and was reported as success, when the cleanup of 812-817 freed
\* the array, and when an allocation of phypUUIDTable_AddLpar failed after
\* nlpars++ (575-583).
Usable(tab) == Len(tab.lpars) = tab.nlpars

\* phypUUIDTable_Free (822-835): the loop of line 830 runs over nlpars
\* entries, whether there is an array or not
phypUUIDTable_Free(tab) == IF Usable(tab) THEN "ok" ELSE "crash"

RECURSIVE NewEntries(_, _, _, _)
\* the loop of lines 787-795: entry i gets ids[i] and a generated uuid; for
\* i in gen virUUIDGenerate fails, which is logged (792-794), and the entry
\* keeps the zero uuid VIR_ALLOC gave it
NewEntries(ids, i, uuid, gen) ==
    IF i > Len(ids) THEN <<>>
    ELSE <<[id |-> ids[i], uuid |-> IF i \in gen THEN ZERO_UUID ELSE uuid]>>
         \o NewEntries(ids, i + 1, uuid + 1, gen)

\* phypUUIDTable_Init, lines 778-809 and the cleanup of 811-819: the table
\* is pulled and read, or created, written and pushed.  did: the transfers
\* and file operations made, in order.  On the create path a failure frees
\* the array and leaves nlpars as it is (812-817); when the array itself
\* could not be allocated (786) that cleanup loop runs over no array.
InitTable(tab, local, remote, uuid, in) ==
    LET n     == in.got
        pl    == phypUUIDTable_Pull(remote, local, in.pull, in.pk)
        freed == [nlpars |-> n, lpars |-> <<>>]
        base  == [ret |-> -1, tab |-> freed, local |-> pl.local,
                  remote |-> remote, uuid |-> uuid, path |-> "create",
                  pull_ret |-> pl.ret, did |-> <<"pull">>, crash |-> FALSE]
    IN
    IF pl.ret = -1
    THEN \* file not found in the server, creating a new one
         IF in.alloc = "array_fail" THEN [base EXCEPT !.crash = TRUE]
         ELSE IF in.alloc = "entry_fail" THEN base
         ELSE
         LET t  == [nlpars |-> n, lpars |-> NewEntries(in.ids, 1, uuid, in.gen)]
             w  == phypUUIDTable_WriteFile(t, pl.local, in.write, in.wk)
             ps == phypUUIDTable_Push(w.file, remote, in.push, in.sk)
         IN  IF w.ret = -1
             THEN [base EXCEPT !.local = w.file, !.uuid = uuid + n,
                               !.did = <<"pull", "write">>]
             ELSE [base EXCEPT !.ret = ps.ret,
                               !.tab = IF ps.ret = 0 THEN t ELSE freed,
                               !.local = w.file, !.remote = ps.remote,
                               !.uuid = uuid + n,
                               !.did = <<"pull", "write", "push">>]
    ELSE LET r == phypUUIDTable_ReadFile(n, pl.local, in.alloc)
         IN  [base EXCEPT !.ret = r.ret,
                          !.tab = [nlpars |-> n,
                                   lpars |-> IF in.alloc = "array_fail" THEN <<>>
                                             ELSE Pad(r.lpars, n)],
                          !.path = "load", !.did = <<"pull", "read">>]

\* phypUUIDTable_Init without the early exit of lines 768-772
phypUUIDTable_Init_NoEarlyExit(tab, local, remote, uuid, in) ==
    LET unchanged == [ret |-> -1, tab |-> tab, local |-> local, remote |-> remote,
                      uuid |-> uuid, path |-> "none", pull_ret |-> 0,
                      did |-> <<>>, crash |-> FALSE]
    IN  IF in.num < 0 \/ in.got < 0 \/ in.num # in.got THEN unchanged
        ELSE InitTable(tab, local, remote, uuid, in)

\* phypUUIDTable_Init.  in: the environment's answers,
\*   num   - result of phypConnectNumOfDomainsGeneric (-1: the query failed)
\*   ids   - the ids phypConnectListDomainsGeneric parsed (at most num)
\*   got   - its return value (-1: the query failed)
\*   pull, pk, write, wk, push, sk - outcomes of Pull, WriteFile and Push
\*   gen   - the entries for which virUUIDGenerate fails
\*   alloc - outcome of the allocations of the entry array
\* Returns ret, the table, both files, the uuid counter, which branch of
\* line 783 ran, and what was transferred.
phypUUIDTable_Init(tab, local, remote, uuid, in) ==
    LET unchanged == [ret |-> -1, tab |-> tab, local |-> local, remote |-> remote,
                      uuid |-> uuid, path |-> "none", pull_ret |-> 0,
                      did |-> <<>>, crash |-> FALSE]
    IN
    IF in.num < 0 \/ in.got < 0 THEN unchanged
    ELSE IF in.num = 0 /\ in.got = 0 THEN [unchanged EXCEPT !.ret = 0]
    ELSE IF in.num # in.got THEN unchanged
    ELSE InitTable(tab, local, remote, uuid, in)

\* the push made although the write to ./uuid_table failed
Persist_PushAlways(tab, local, remote, wr, ps) ==
    LET w == phypUUIDTable_WriteFile(tab, local, wr.out, wr.k)
        p == phypUUIDTable_Push(w.file, remote, "sent", 0)
    IN  [ret |-> IF w.ret = -1 THEN -1 ELSE p.ret, local |-> w.file,
         remote |-> p.remote, did |-> <<"write", "push">>]

\* the mutation is written to ./uuid_table and pushed (557-563, 588-594);
\* did: the operations made
Persist(tab, local, remote, wr, ps) ==
    LET w == phypUUIDTable_WriteFile(tab, local, wr.out, wr.k)
        p == phypUUIDTable_Push(w.file, remote, ps.out, ps.k)
    IN  IF w.ret = -1
        THEN [ret |-> -1, local |-> w.file, remote |-> remote, did |-> <<"write">>]
        ELSE [ret |-> p.ret, local |-> w.file, remote |-> p.remote,
              did |-> <<"write", "push">>]

\* the add without the memcpy of line 586: the new entry keeps a zero uuid
phypUUIDTable_AddLpar_NoCopy(tab, local, remote, uuid, id, alloc, wr, ps) ==
    LET t == [nlpars |-> tab.nlpars + 1,
              lpars  |-> Append(tab.lpars, [id |-> id, uuid |-> ZERO_UUID])]
        p == Persist(t, local, remote, wr, ps)
    IN  [ret |-> p.ret, tab |-> t, local |-> p.local, remote |-> p.remote,
         did |-> p.did]

\* phypUUIDTable_AddLpar: nlpars++, the array grows by one, the new last
\* entry gets (id, uuid); then the table is written and pushed.  The entry
\* stays in memory when the write or the push fails.  When VIR_REALLOC_N
\* (578) or VIR_ALLOC of the entry (582) fails the function returns -1 with
\* nlpars raised (575) and no entry added.
phypUUIDTable_AddLpar(tab, local, remote, uuid, id, alloc, wr, ps) ==
    LET t == [nlpars |-> tab.nlpars + 1,
              lpars  |-> Append(tab.lpars, [id |-> id, uuid |-> uuid])]
        p == Persist(t, local, remote, wr, ps)
    IN  IF alloc # "ok"
        THEN [ret |-> -1, tab |-> [tab EXCEPT !.nlpars = @ + 1],
              local |-> local, remote |-> remote, did |-> <<>>]
        ELSE [ret |-> p.ret, tab |-> t, local |-> p.local, remote |-> p.remote,
              did |-> p.did]

\* a loop that zeroes the uuid of every entry it passes, matching or not
Tombstone_ZeroAll(lpars, nlpars, id, i) ==
    [j \in 1..Len(lpars) |->
        IF j < i \/ j > nlpars THEN lpars[j]
        ELSE [id |-> IF lpars[j].id = id THEN TOMBSTONE ELSE lpars[j].id,
              uuid |-> ZERO_UUID]]

\* the loop of lines 550-555 stopping one entry early
Tombstone_StopEarly(lpars, nlpars, id, i) ==
    [j \in 1..Len(lpars) |->
        IF j >= i /\ j < nlpars /\ lpars[j].id = id
        THEN [id |-> TOMBSTONE, uuid |-> ZERO_UUID]
        ELSE lpars[j]]

RECURSIVE Tombstone(_, _, _, _)
\* the loop of lines 550-555 over the entries of the array: every entry
\* whose id matches gets id -1 and a zeroed uuid
Tombstone(lpars, nlpars, id, i) ==
    IF i > nlpars THEN lpars
    ELSE Tombstone(IF lpars[i].id = id
                   THEN [lpars EXCEPT ![i] = [id |-> TOMBSTONE, uuid |-> ZERO_UUID]]
                   ELSE lpars,
                   nlpars, id, i + 1)

\* the indices i at which the loop of line 550 reads uuid_table->lpars[i]:
\* for (i = 0; i <= uuid_table->nlpars; i++)
RemLparScan(nlpars) == 0..nlpars

\* The loop's last iteration (i = nlpars, line 550) reads lpars[nlpars], one
\* past the array: with no array (nlpars = 0, lpars = NULL) the process
\* dies; otherwise the stray pointer either faults or is read without a
\* match.
OobChoices(tab) ==
    IF tab.nlpars = 0 \/ ~Usable(tab) THEN {"crash"} ELSE {"benign", "crash"}

\* a remove that takes the entry out of the array instead of marking it
phypUUIDTable_RemLpar_Compact(tab, local, remote, id, wr, ps) ==
    LET kept == SelectSeq(tab.lpars, LAMBDA e : e.id # id)
        t    == [nlpars |-> Len(kept), lpars |-> kept]
        p    == Persist(t, local, remote, wr, ps)
    IN  [ret |-> p.ret, tab |-> t, local |-> p.local, remote |-> p.remote,
         did |-> p.did]

\* phypUUIDTable_RemLpar for a run that survives the stray read
phypUUIDTable_RemLpar(tab, local, remote, id, wr, ps) ==
    LET t == [tab EXCEPT !.lpars = Tombstone(tab.lpars, tab.nlpars, id, 1)]
        p == Persist(t, local, remote, wr, ps)
    IN  [ret |-> p.ret, tab |-> t, local |-> p.local, remote |-> p.remote,
         did |-> p.did]

\* phypDomainCreateXML, lines 3555-3562: the id is already in the table
\* (the uuid comparison of line 3556 compares two addresses and is never
\* true)
IdExists(tab, id) == \E i \in 1..tab.nlpars : tab.lpars[i].id = id

----------------------------------------------------------------------------
(***************************************************************************)
(* The environment's answers, enumerated per call.                         *)
(***************************************************************************)
\* the count query can fail, agree with the host, or miss the listing by
\* one when an lpar is created or removed between the two queries
\* how many fields a file of len fields keeps when it is cut short
Kept(len) == {k \in 0..MaxKeep : k < len}

NumChoices(c) == {-1, c, c + 1} \cup (IF c > 0 THEN {c - 1} ELSE {})

\* phypConnectListDomainsGeneric parses at most nids ids (line 404)
Listing(num) ==
    LET all == SortedSeq(live)
    IN  Prefix(all, IF num < Len(all) THEN num ELSE Len(all))

PullChoices(remote) ==
    {[out |-> o, k |-> 0] : o \in PullOutcomesFor(remote) \ {"short", "wait_read_fail"}}
    \cup {[out |-> o, k |-> k] : o \in {"short", "wait_read_fail"} \cap PullOutcomesFor(remote),
                                  k \in Kept(Len(remote.data))}

WriteOk == [out |-> "ok", k |-> 0]
PushOk == [out |-> "sent", k |-> 0]

WriteChoices(n) ==
    {[out |-> o, k |-> 0] : o \in WriteOutcomes \ {"write_fail"}}
    \cup {[out |-> "write_fail", k |-> k] : k \in Kept(2 * n)}

PushChoices(n) ==
    {[out |-> o, k |-> 0] : o \in PushOutcomes \ {"torn", "no_local"}}
    \cup {[out |-> "torn", k |-> k] : k \in Kept(2 * n)}

\* outcomes of writing and pushing a table of n entries: the push is only
\* reached after a write that succeeded
PersistChoices(n) ==
    {[wr |-> w, ps |-> PushOk] : w \in WriteChoices(n) \ {WriteOk}}
    \cup {[wr |-> WriteOk, ps |-> p] : p \in PushChoices(n)}

NoPersist == [wr |-> WriteOk, ps |-> PushOk]

\* the answers phypUUIDTable_Init can get for a count query answering num:
\* every outcome of the transfers with the allocations and the uuid
\* generator working, and every outcome of those two with the transfers
\* working
InitInputsFor(num) ==
    LET ids  == Listing(num)
        base == [num |-> num, ids |-> ids, got |-> Len(ids),
                 pull |-> "no_channel", pk |-> 0, write |-> "ok", wk |-> 0,
                 push |-> "sent", sk |-> 0, gen |-> {}, alloc |-> "ok"]
    IN  IF num <= 0 \/ Len(ids) # num
        THEN {[base EXCEPT !.got = g] : g \in {-1, Len(ids)}}
        ELSE {[base EXCEPT !.got = -1]}
             \cup UNION {
                   {[base EXCEPT !.pull = pl.out, !.pk = pl.k,
                                 !.write = pch.wr.out, !.wk = pch.wr.k,
                                 !.push = pch.ps.out, !.sk = pch.ps.k] :
                      pch \in (IF phypUUIDTable_Pull(remote_file, local_file,
                                                    pl.out, pl.k).ret = -1
                              THEN PersistChoices(num) ELSE {NoPersist})} :
                   pl \in PullChoices(remote_file)}
             \cup {[base EXCEPT !.gen = g] : g \in (SUBSET (1..num)) \ {{}}}
             \cup {[base EXCEPT !.alloc = a, !.pull = pl] :
                      a \in AllocOutcomes \ {"ok"},
                      pl \in {"no_channel"} \cup
                             (IF remote_file.exists THEN {"complete"} ELSE {})}

InitInputs == UNION {InitInputsFor(num) : num \in NumChoices(Cardinality(live))}

\* no connections besides the one of conn
NoPeers == <<>>

\* openSSHSession has not been called: no user in the URI, no callback, no
\* key files, nothing done, no socket (sock = -1 of line 900) and no
\* session of libssh2 allocated (held)
NoSsh == [user |-> "NULL", cb |-> FALSE, keys |-> FALSE, step |-> "idle",
          username |-> "NULL", rc |-> 0, fallback |-> FALSE, did |-> <<>>,
          session |-> "none", error |-> "none",
          push_path |-> <<>>, pull_path |-> <<>>,
          sock |-> "none", held |-> "none"]

\* what is noted of a driver call: the call, its argument and result; for
\* an open the two enumerations (num, got), the result of
\* phypUUIDTable_Init (init), the outcome of Pull and the branch taken, and
\* whether the process died; did: the file operations and transfers made
NoOp == [op |-> "none", id |-> 0, rc |-> 0, uuid |-> ZERO_UUID,
         pull |-> "none", path |-> "none", num |-> -1, got |-> -1,
         init |-> -1, did |-> <<>>, died |-> FALSE, touched |-> {}]

----------------------------------------------------------------------------
(***************************************************************************)
(* SpecProto: one call of phypExec, phypUUIDTable_Push or                  *)
(* phypUUIDTable_Pull, one action per libssh2 call and per waitsocket.     *)
(* The transport answers each call with success, LIBSSH2_ERROR_EAGAIN or   *)
(* a hard error.                                                           *)
(***************************************************************************)
\* would-block results the transport gives during one call
MaxEagain == 2
\* size of phypExec's read buffer (16384 in the source, line 107)
buffer_size == 3
\* sizeof(buffer) of Push and Pull (1024 in the source, lines 467 and 654)
BlockSize == 4
\* successful reads of a command's output
MaxReads == 2
\* length of the files SpecProto transfers
MaxFile == 5

\* the bytes a remote command prints are 1..MaxByte
MaxByte == 2
Bytes == 1..MaxByte
\* a byte read from outside the object it was meant to come from: a value
\* no output and no file of the model holds
STRAY == MaxByte + MaxFile + 1

LIBSSH2_ERROR_NONE == 0
LIBSSH2_ERROR_EAGAIN == -37
\* one of the hard errors, standing for all of them
LIBSSH2_ERROR_SOCKET_SEND == -7
\* phyp_driver.h; negative, callers test exit_status < 0
SSH_CMD_ERR == -3
\* the value exitcode is preset to before the close loop (line 168)
CLOSE_FAILED == 127

\* system types, told apart by the exit status of "lshmc -V" (251-263)
HMC == 0
IVM == 127

\* exit statuses of remote commands: the two phypGetSystemType tells apart
\* and one more
ExitStatuses == {HMC, 1, IVM}

Calls == {"open_session", "exec", "read", "close",
          "scp_send", "write", "scp_recv", "recv_read"}

NoXfer == [nread |-> 0, sent |-> 0, ptr |-> 0, bstart |-> 0, blen |-> 0,
           off |-> 0, got |-> 0, size |-> 0]

\* no call is running
PIdle ==
    /\ fn = "none"
    /\ pc = "idle"
    /\ resume = "idle"
    /\ last = [call |-> "none", rc |-> 0, eintr |-> FALSE, fd |-> -1]
    /\ budget = MaxEagain
    /\ n_eagain = [c \in Calls |-> 0]
    /\ n_wait = [c \in Calls |-> 0]
    /\ hards = {}
    /\ channel = "none"
    /\ buffer = [i \in 1..buffer_size |-> 0]
    /\ tex_ret = <<>>
    /\ delivered = <<>>
    /\ reads_left = MaxReads
    /\ remote_status = 0
    /\ exit_status = 0
    /\ ret = "none"
    /\ xfer = NoXfer

\* what a libssh2 call can answer besides its successes
Failures ==
    {LIBSSH2_ERROR_SOCKET_SEND}
    \cup (IF budget > 0 THEN {LIBSSH2_ERROR_EAGAIN} ELSE {})

\* a negative result other than would-block
IsHard(rc) == rc < 0 /\ rc # LIBSSH2_ERROR_EAGAIN

\* bookkeeping of a libssh2 call that returned rc
Called(call, rc) ==
    /\ last' = [call |-> call, rc |-> rc, eintr |-> FALSE, fd |-> -1]
    /\ n_eagain' = IF rc = LIBSSH2_ERROR_EAGAIN
                   THEN [n_eagain EXCEPT ![call] = @ + 1] ELSE n_eagain
    /\ budget' = IF rc = LIBSSH2_ERROR_EAGAIN THEN budget - 1 ELSE budget
    /\ hards' = IF IsHard(rc) THEN hards \cup {call} ELSE hards

\* phypExec leaving the open loop on would-block without waiting
ExecAfter_NoWait(call, rc) ==
    CASE call = "open_session" ->
            IF rc = LIBSSH2_ERROR_NONE THEN "exec"
            ELSE IF rc = LIBSSH2_ERROR_EAGAIN THEN "open_session" ELSE "err"
      [] rc = LIBSSH2_ERROR_EAGAIN -> "wait"
      [] call = "exec" -> IF rc = LIBSSH2_ERROR_NONE THEN "read" ELSE "err"
      [] call = "read" -> IF rc > 0 THEN "read" ELSE "close"
      [] OTHER -> "return"

\* phypExec going on to read although libssh2_channel_exec failed
ExecAfter_ExecUnchecked(call, rc) ==
    CASE rc = LIBSSH2_ERROR_EAGAIN -> "wait"
      [] call = "open_session" -> IF rc = LIBSSH2_ERROR_NONE THEN "exec" ELSE "err"
      [] call = "exec" -> "read"
      [] call = "read" -> IF rc > 0 THEN "read" ELSE "close"
      [] OTHER -> "return"

\* phypExec, lines 116-176: where the function goes after call returned rc.
\*   open_session (117-129): would-block -> waitsocket and again; no
\*                           channel -> err
\*   exec (131-142):         would-block -> waitsocket and again; rc != 0
\*                           -> err
\*   read (144-166):         rc > 0 -> read again; would-block ->
\*                           waitsocket and again; anything else -> break
\*   close (170-180):        would-block -> waitsocket and again; anything
\*                           else -> the return of lines 178-192
ExecAfter(call, rc) ==
    CASE rc = LIBSSH2_ERROR_EAGAIN -> "wait"
      [] call = "open_session" -> IF rc = LIBSSH2_ERROR_NONE THEN "exec" ELSE "err"
      [] call = "exec" -> IF rc = LIBSSH2_ERROR_NONE THEN "read" ELSE "err"
      [] call = "read" -> IF rc > 0 THEN "read" ELSE "close"
      [] OTHER -> "return"

\* the exit code phypExec hands back after the close loop (168, 178-182)
ExitCode(rc, status) == IF rc = LIBSSH2_ERROR_NONE THEN status ELSE CLOSE_FAILED

\* phypGetSystemType (251-263): the system type is the exit status phypExec
\* reports for "lshmc -V"
phypGetSystemType(status) == status

\* the C string in the read buffer: the bytes before the first NUL, which
\* is what virBufferAdd(&tex_ret, buffer, -1) appends (line 150)
RECURSIVE CString(_, _)
CString(buf, i) ==
    IF i > Len(buf) \/ buf[i] = 0 THEN <<>>
    ELSE <<buf[i]>> \o CString(buf, i + 1)

\* a buffer filled to its last byte holds no NUL: strlen runs on into the
\* memory behind it and stops there at once or after a stray byte
Overrun(buf) ==
    IF \A i \in 1..Len(buf) : buf[i] # 0 THEN {<<>>, <<STRAY>>} ELSE {<<>>}

\* libssh2_channel_read stores the bytes at the start of the buffer and
\* leaves the rest of it as it was (line 147)
ReadInto(buf, data) ==
    [i \in 1..Len(buf) |-> IF i <= Len(data) THEN data[i] ELSE buf[i]]

\* the outputs a read can deliver: 1..buffer_size bytes
ReadData == UNION {[1..n -> Bytes] : n \in 1..buffer_size}

\* the err label of phypExec (194-198); the channel is left as it is
ExecErr ==
    /\ pc' = "done"
    /\ exit_status' = SSH_CMD_ERR
    /\ ret' = "NULL"
    /\ tex_ret' = <<>>
    /\ UNCHANGED <<channel, resume>>

\* the order of the calls of phypExec
GoTo(call, next) ==
    CASE next = "wait" -> pc' = "wait" /\ resume' = call
      [] OTHER -> pc' = next /\ UNCHANGED resume

\* the functions are entered
CallExec ==
    /\ pc = "idle"
    /\ fn' = "exec"
    /\ pc' = "open_session"
    /\ UNCHANGED <<resume, last, budget, n_eagain, n_wait, hards, channel, buffer,
                   tex_ret, delivered, reads_left, remote_status, exit_status,
                   ret, xfer>>
    /\ UNCHANGED <<hist, tonly, files>>

\* libssh2_channel_open_session (117)
ExecOpenSession ==
    /\ fn = "exec" /\ pc = "open_session"
    /\ \E rc \in {LIBSSH2_ERROR_NONE} \cup Failures :
         /\ Called("open_session", rc)
         /\ LET next == ExecAfter("open_session", rc)
            IN  IF next = "err"
                THEN ExecErr
                ELSE /\ GoTo("open_session", next)
                     /\ channel' = IF rc = LIBSSH2_ERROR_NONE THEN "open" ELSE channel
                     /\ UNCHANGED <<exit_status, ret, tex_ret>>
    /\ UNCHANGED <<fn, n_wait, buffer, delivered, reads_left, remote_status, xfer>>
    /\ UNCHANGED <<hist, tonly, files>>

\* libssh2_channel_exec (131)
ExecRequest ==
    /\ fn = "exec" /\ pc = "exec"
    /\ \E rc \in {LIBSSH2_ERROR_NONE} \cup Failures :
         /\ Called("exec", rc)
         /\ LET next == ExecAfter("exec", rc)
            IN  IF next = "err"
                THEN ExecErr
                ELSE /\ GoTo("exec", next)
                     /\ UNCHANGED <<channel, exit_status, ret, tex_ret>>
    /\ UNCHANGED <<fn, n_wait, buffer, delivered, reads_left, remote_status, xfer>>
    /\ UNCHANGED <<hist, tonly, files>>

\* libssh2_channel_read (147-151): rc > 0 bytes arrive, 0 is end of stream
ExecRead ==
    /\ fn = "exec" /\ pc = "read"
    /\ \/ \E data \in (IF reads_left > 0 THEN ReadData ELSE {}) :
          LET b == ReadInto(buffer, data)
          IN  /\ Called("read", Len(data))
              /\ buffer' = b
              /\ delivered' = delivered \o data
              /\ reads_left' = reads_left - 1
              /\ \E over \in Overrun(b) : tex_ret' = tex_ret \o CString(b, 1) \o over
              /\ GoTo("read", ExecAfter("read", Len(data)))
       \/ \E rc \in {0} \cup Failures :
          /\ Called("read", rc)
          /\ GoTo("read", ExecAfter("read", rc))
          /\ UNCHANGED <<buffer, delivered, reads_left, tex_ret>>
    /\ UNCHANGED <<fn, n_wait, channel, remote_status, exit_status, ret, xfer>>
    /\ UNCHANGED <<hist, tonly, files>>

\* libssh2_channel_close (170) and, when the loop ends, lines 178-192
ExecClose ==
    /\ fn = "exec" /\ pc = "close"
    /\ \E rc \in {LIBSSH2_ERROR_NONE} \cup Failures :
       \E status \in ExitStatuses :
         /\ Called("close", rc)
         /\ LET next == ExecAfter("close", rc)
            IN  IF next = "return"
                THEN /\ pc' = "done"
                     /\ remote_status' = status
                     /\ exit_status' = ExitCode(rc, status)
                     /\ channel' = "freed"
                     /\ ret' = "output"
                     /\ UNCHANGED resume
                ELSE /\ status = HMC
                     /\ GoTo("close", next)
                     /\ UNCHANGED <<remote_status, exit_status, channel, ret>>
    /\ UNCHANGED <<fn, n_wait, buffer, tex_ret, delivered, reads_left, xfer>>
    /\ UNCHANGED <<hist, tonly, files>>

\* the smaller of two numbers
Min(a, b) == IF a < b THEN a ELSE b

\* a function that returns releases the channel it opened (531-538, 734-741)
Finish(r) ==
    /\ pc' = "done"
    /\ ret' = r
    /\ channel' = IF channel = "open" THEN "freed" ELSE channel
    /\ UNCHANGED resume

\* phypUUIDTable_Push is entered: asprintf, stat and fopen (476-488)
CallPush ==
    /\ pc = "idle"
    /\ fn' = "push"
    /\ \/ /\ Finish("-1")
          /\ UNCHANGED xfer
       \/ /\ local_file.exists
          /\ pc' = "scp_send"
          /\ xfer' = [NoXfer EXCEPT !.size = Len(local_file.data)]
          /\ UNCHANGED <<ret, channel, resume>>
    /\ UNCHANGED <<last, budget, n_eagain, n_wait, hards, buffer, tex_ret,
                   delivered, reads_left, remote_status, exit_status>>
    /\ UNCHANGED <<hist, tonly, files>>

\* the loop around libssh2_scp_send (490-499): a would-block result goes
\* straight back to the call
PushAfterSend(rc) ==
    CASE rc = LIBSSH2_ERROR_EAGAIN -> "scp_send"
      [] rc = LIBSSH2_ERROR_NONE -> "fread"
      [] OTHER -> "cleanup"

\* libssh2_scp_send (491-498); the remote scp creates the file
PushScpSend ==
    /\ fn = "push" /\ pc = "scp_send"
    /\ \E rc \in {LIBSSH2_ERROR_NONE} \cup Failures :
         /\ Called("scp_send", rc)
         /\ LET next == PushAfterSend(rc)
            IN  CASE next = "cleanup" ->
                       Finish("-1") /\ UNCHANGED remote_file
                  [] next = "fread" ->
                       /\ pc' = "fread"
                       /\ channel' = "open"
                       /\ remote_file' = [exists |-> TRUE, data |-> <<>>]
                       /\ UNCHANGED <<ret, resume>>
                  [] OTHER ->
                       /\ pc' = next
                       /\ UNCHANGED <<ret, resume, channel, remote_file>>
    /\ UNCHANGED <<fn, n_wait, buffer, tex_ret, delivered, reads_left,
                   remote_status, exit_status, xfer>>
    /\ UNCHANGED <<hist, tonly, local_file>>

\* fread of the next block (502-513); at end of file the function returns 0
PushFread ==
    /\ fn = "push" /\ pc = "fread"
    /\ LET n == Min(BlockSize, Len(local_file.data) - xfer.off)
       IN  \/ /\ n = 0
              /\ Finish("0")
              /\ UNCHANGED xfer
           \/ \* fread fails (507-509)
              /\ Finish("-1")
              /\ UNCHANGED xfer
           \/ /\ n > 0
              /\ pc' = "write"
              /\ xfer' = [xfer EXCEPT !.nread = n, !.sent = 0, !.ptr = 0,
                                      !.bstart = xfer.off, !.blen = n,
                                      !.off = xfer.off + n]
              /\ UNCHANGED <<ret, channel, resume>>
    /\ UNCHANGED <<fn, last, budget, n_eagain, n_wait, hards, buffer, tex_ret,
                   delivered, reads_left, remote_status, exit_status>>
    /\ UNCHANGED <<hist, tonly, files>>

\* nread is a size_t: a subtraction below zero wraps to a huge number,
\* written -1 here
Wrapped(n) == n < 0

\* nread -= sent (525)
SizeSub(n, k) == IF Wrapped(n) \/ n - k < 0 THEN -1 ELSE n - k

\* sent < nread (526)
SizeLess(k, n) == Wrapped(n) \/ k < n

\* the byte at offset j of Push's buffer: of the block fread just stored,
\* of the block before it, or junk
ByteAt(x, data, j, junk) ==
    IF j < x.blen THEN data[x.bstart + j + 1]
    ELSE IF j < BlockSize /\ x.bstart > 0 THEN data[x.bstart - BlockSize + j + 1]
    ELSE junk

\* the rc bytes libssh2_channel_write takes from ptr (517)
WriteBytes(x, data, rc, junk) ==
    [i \in 1..rc |-> ByteAt(x, data, x.ptr + i - 1, junk)]

\* the remote scp stores the st_size bytes announced at scp_send, no more
Stored(remote, bytes, size) ==
    [remote EXCEPT !.data = @ \o Prefix(bytes, Min(Len(bytes), size - Len(@)))]

\* the body of the write loop after a result that is not would-block
\* (520-525)
WriteUpdate(x, rc) ==
    LET s == IF rc > 0 THEN x.sent + rc ELSE x.sent
    IN  [x EXCEPT !.sent = s, !.ptr = x.ptr + s, !.nread = SizeSub(x.nread, s)]

\* the write loop goes round again (519, 526)
WriteAgain(x, rc) == rc > 0 /\ SizeLess(x.sent, x.nread)

\* libssh2_channel_write and the rest of the loop body (515-526)
PushWrite ==
    /\ fn = "push" /\ pc = "write"
    /\ \/ \E rc \in 1..(IF Wrapped(xfer.nread) THEN BlockSize ELSE xfer.nread) :
          \E junk \in {0, STRAY} :
            LET x == WriteUpdate(xfer, rc)
            IN  /\ Wrapped(xfer.nread) => budget > 0
                /\ last' = [call |-> "write", rc |-> rc, eintr |-> FALSE, fd |-> -1]
                /\ budget' = IF Wrapped(xfer.nread) THEN budget - 1 ELSE budget
                /\ remote_file' = Stored(remote_file,
                                         WriteBytes(xfer, local_file.data, rc, junk),
                                         xfer.size)
                /\ xfer' = x
                /\ pc' = IF WriteAgain(x, rc) THEN "write" ELSE "fread"
                /\ UNCHANGED <<n_eagain, hards>>
       \/ \E rc \in {0} \cup Failures :
            /\ Called("write", rc)
            /\ xfer' = IF rc = LIBSSH2_ERROR_EAGAIN THEN xfer ELSE WriteUpdate(xfer, rc)
            /\ pc' = IF WriteAgain(xfer', rc) THEN "write" ELSE "fread"
            /\ UNCHANGED remote_file
       \/ \* nread has wrapped: libssh2_channel_write is handed a pointer past
          \* the block and a length that runs off the buffer and the stack
          \* (517); the process can die reading it
          /\ Wrapped(xfer.nread)
          /\ pc' = "fault"
          /\ last' = [call |-> "write", rc |-> 0, eintr |-> FALSE, fd |-> -1]
          /\ UNCHANGED <<budget, n_eagain, hards, xfer, remote_file>>
    /\ UNCHANGED <<fn, resume, n_wait, channel, buffer, tex_ret, delivered,
                   reads_left, remote_status, exit_status, ret>>
    /\ UNCHANGED <<hist, tonly, local_file>>

\* phypUUIDTable_Pull is entered (665-667)
CallPull ==
    /\ pc = "idle"
    /\ fn' = "pull"
    /\ pc' = "scp_recv"
    /\ UNCHANGED <<resume, last, budget, n_eagain, n_wait, hards, channel, buffer,
                   tex_ret, delivered, reads_left, remote_status, exit_status,
                   ret, xfer>>
    /\ UNCHANGED <<hist, tonly, files>>

\* the loop around libssh2_scp_recv (670-685)
PullAfterRecv(rc) ==
    CASE rc = LIBSSH2_ERROR_EAGAIN -> "wait"
      [] rc = LIBSSH2_ERROR_NONE -> "creat"
      [] OTHER -> "cleanup"

\* libssh2_scp_recv (671); there is a channel only if the remote file exists
PullScpRecv ==
    /\ fn = "pull" /\ pc = "scp_recv"
    /\ \E rc \in (IF remote_file.exists THEN {LIBSSH2_ERROR_NONE} ELSE {}) \cup Failures :
         /\ Called("scp_recv", rc)
         /\ LET next == PullAfterRecv(rc)
            IN  CASE next = "cleanup" -> Finish("-1") /\ UNCHANGED xfer
                  [] next = "creat" ->
                       /\ pc' = "creat"
                       /\ channel' = "open"
                       /\ xfer' = [NoXfer EXCEPT !.size = Len(remote_file.data)]
                       /\ UNCHANGED <<ret, resume>>
                  [] OTHER ->
                       /\ GoTo("scp_recv", next)
                       /\ UNCHANGED <<ret, channel, xfer>>
    /\ UNCHANGED <<fn, n_wait, buffer, tex_ret, delivered, reads_left,
                   remote_status, exit_status>>
    /\ UNCHANGED <<hist, tonly, files>>

\* creat of ./uuid_table (688) and the first test of the read loop (692)
PullCreat ==
    /\ fn = "pull" /\ pc = "creat"
    /\ \/ /\ Finish("-1")
          /\ UNCHANGED local_file
       \/ /\ local_file' = [exists |-> TRUE, data |-> <<>>]
          /\ pc' = IF xfer.got < xfer.size THEN "recv_read" ELSE "pull_close"
          /\ UNCHANGED <<ret, channel, resume>>
    /\ UNCHANGED <<fn, last, budget, n_eagain, n_wait, hards, buffer, tex_ret,
                   delivered, reads_left, remote_status, exit_status, xfer>>
    /\ UNCHANGED <<hist, tonly, remote_file>>

\* the read loops of Pull (692-725): where the function goes after
\* libssh2_channel_read returned rc with got bytes received so far
PullAfterRead(rc, got, size) ==
    IF rc > 0 THEN "recv_read"
    ELSE IF rc = LIBSSH2_ERROR_EAGAIN /\ got < size THEN "wait"
    ELSE "pull_close"

\* libssh2_channel_read of at most amount bytes and safewrite (694-709)
PullRead ==
    /\ fn = "pull" /\ pc = "recv_read"
    /\ LET amount == Min(BlockSize, xfer.size - xfer.got)
       IN  \/ \E rc \in 1..amount : \E wrote \in BOOLEAN :
                /\ Called("recv_read", rc)
                /\ local_file' =
                     IF wrote
                     THEN [local_file EXCEPT !.data =
                             @ \o SubSeq(remote_file.data, xfer.got + 1, xfer.got + rc)]
                     ELSE local_file
                /\ xfer' = [xfer EXCEPT !.got = @ + rc]
                /\ GoTo("recv_read", PullAfterRead(rc, xfer.got + rc, xfer.size))
           \/ \E rc \in {0} \cup Failures :
                /\ Called("recv_read", rc)
                /\ GoTo("recv_read", PullAfterRead(rc, xfer.got, xfer.size))
                /\ UNCHANGED <<local_file, xfer>>
    /\ UNCHANGED <<fn, n_wait, channel, buffer, tex_ret, delivered, reads_left,
                   remote_status, exit_status, ret>>
    /\ UNCHANGED <<hist, tonly, remote_file>>

\* VIR_CLOSE of the local file (726-732)
PullClose ==
    /\ fn = "pull" /\ pc = "pull_close"
    /\ \E r \in {"0", "-1"} : Finish(r)
    /\ UNCHANGED <<fn, last, budget, n_eagain, n_wait, hards, buffer, tex_ret,
                   delivered, reads_left, remote_status, exit_status, xfer>>
    /\ UNCHANGED <<hist, tonly, files>>

\* the socket of the connection: the descriptor socket() gave
\* openSSHSession (952), kept in connection_data->sock (1124)
ConnSock == 3

\* the descriptor a function hands to waitsocket: phypExec takes
\* connection_data->sock (110); phypUUIDTable_Pull has 'int sock = 0' (660)
\* and never sets it
WaitFd(f) == IF f = "pull" THEN 0 ELSE ConnSock

\* waitsocket (73-92) as its callers use it: a failed poll that is not an
\* interruption ends the function, anything else repeats the call
\* a caller that takes every negative result of waitsocket as a failure
AfterWait_EintrFatal(w) == IF w = "ready" THEN "retry" ELSE "err"

\* what the callers of waitsocket do with its result (120, 133, 158, 171,
\* 678, 717): 'if (waitsocket(sock, session) < 0 && errno != EINTR)' leaves
\* the function, anything else goes round the loop again
AfterWait(w) == IF w = "fail" THEN "err" ELSE "retry"

\* waitsocket (73-92) returns what poll returns: ready, -1 with EINTR, or
\* -1 with another errno
WaitSocket ==
    /\ pc = "wait"
    /\ \E w \in {"ready", "EINTR", "fail"} :
         /\ last' = [call |-> "wait", rc |-> IF w = "ready" THEN 1 ELSE -1,
                     eintr |-> (w = "EINTR"), fd |-> WaitFd(fn)]
         /\ n_wait' = [n_wait EXCEPT ![resume] = @ + 1]
         /\ IF AfterWait(w) = "err"
            THEN /\ hards' = hards \cup {"wait"}
                 /\ IF fn = "exec"
                    THEN ExecErr
                    ELSE Finish("-1") /\ UNCHANGED <<exit_status, tex_ret>>
            ELSE /\ pc' = resume
                 /\ UNCHANGED <<hards, resume, channel, exit_status, ret, tex_ret>>
    /\ UNCHANGED <<fn, budget, n_eagain, buffer, delivered, reads_left,
                   remote_status, xfer>>
    /\ UNCHANGED <<hist, tonly, files>>

\* files of up to MaxFile bytes, each byte different; the file a transfer
\* writes to is absent before it
ProtoFiles ==
    {NoFile} \cup {[exists |-> TRUE, data |-> [i \in 1..n |-> i]] : n \in 0..MaxFile}

PInit ==
    /\ conn = "open"
    /\ uuid_table = EmptyTable
    /\ live = {}
    /\ next_uuid = 1
    /\ last_op = NoOp
    /\ first_uuid = <<>>
    /\ \/ local_file \in ProtoFiles /\ remote_file = NoFile
       \/ local_file = NoFile /\ remote_file \in ProtoFiles
    /\ PIdle
    /\ log = <<>>
    /\ ssh = NoSsh
    /\ peers = NoPeers

PNext ==
    \/ CallExec \/ ExecOpenSession \/ ExecRequest \/ ExecRead \/ ExecClose
    \/ CallPush \/ PushScpSend \/ PushFread \/ PushWrite
    \/ CallPull \/ PullScpRecv \/ PullCreat \/ PullRead \/ PullClose
    \/ WaitSocket

SpecProto == PInit /\ [][PNext]_vars

\* SpecProto with the function going on as long as it has a step to make: a
\* libssh2 call and a waitsocket always return, and the transport stops
\* answering would-block once budget is used up
SpecProtoFair == PInit /\ [][PNext]_vars /\ WF_vars(PNext)

----------------------------------------------------------------------------
(***************************************************************************)
(* SpecTwice: a table is written and pushed, the remote copy is pulled,    *)
(* and the same table is written and pushed and pulled once more.  The     *)
(* transfers run one libssh2 call at a time as in SpecProto.               *)
(***************************************************************************)
\* calls made one after the other
MaxCalls == 4

\* tables of one to MaxLen entries
TwiceTables ==
    {[nlpars |-> n, lpars |-> [i \in 1..n |-> [id |-> i, uuid |-> i]]] :
        n \in 1..MaxLen}

TwiceInit ==
    /\ conn = "open"
    /\ uuid_table \in TwiceTables
    /\ live = {uuid_table.lpars[i].id : i \in 1..uuid_table.nlpars}
    /\ next_uuid = 1
    /\ last_op = NoOp
    /\ first_uuid = <<>>
    /\ local_file = NoFile
    /\ remote_file = NoFile
    /\ PIdle
    /\ log = <<>>
    /\ ssh = NoSsh
    /\ peers = NoPeers

\* phypUUIDTable_WriteFile succeeds and phypUUIDTable_Push is entered, as in
\* lines 557-560, 588-591 and 799-802; stat and fopen succeed (480-488)
TwicePush ==
    /\ pc = "idle"
    /\ Len(log) < MaxCalls
    /\ Len(log) > 0 => log[Len(log)].fn = "pull"
    /\ LET w == phypUUIDTable_WriteFile(uuid_table, local_file, "ok", 0)
       IN  /\ local_file' = w.file
           /\ xfer' = [NoXfer EXCEPT !.size = Len(w.file.data)]
    /\ fn' = "push"
    /\ pc' = "scp_send"
    /\ UNCHANGED <<resume, last, budget, n_eagain, n_wait, hards, channel, buffer,
                   tex_ret, delivered, reads_left, remote_status, exit_status,
                   ret>>
    /\ UNCHANGED <<hist, tonly, remote_file>>

\* phypUUIDTable_Pull is entered after a Push that returned 0
TwicePull ==
    /\ Len(log) > 0
    /\ Len(log) < MaxCalls
    /\ log[Len(log)].fn = "push"
    /\ log[Len(log)].ret = "0"
    /\ CallPull

\* the call returns: its result is noted and the next call starts afresh
TwiceReturn ==
    /\ pc = "done"
    /\ UNCHANGED <<ssh, peers>>
    /\ log' = Append(log, [fn |-> fn, ret |-> ret,
                           data |-> IF fn = "pull" THEN local_file.data
                                    ELSE remote_file.data,
                           whole |-> local_file.data = remote_file.data,
                           clean |-> hards = {}])
    /\ fn' = "none"
    /\ pc' = "idle"
    /\ resume' = "idle"
    /\ last' = [call |-> "none", rc |-> 0, eintr |-> FALSE, fd |-> -1]
    /\ budget' = MaxEagain
    /\ n_eagain' = [c \in Calls |-> 0]
    /\ n_wait' = [c \in Calls |-> 0]
    /\ hards' = {}
    /\ channel' = "none"
    /\ xfer' = NoXfer
    /\ ret' = "none"
    /\ UNCHANGED <<buffer, tex_ret, delivered, reads_left, remote_status,
                   exit_status>>
    /\ UNCHANGED <<tonly, files>>

TwiceNext ==
    \/ TwicePush \/ PushScpSend \/ PushFread \/ PushWrite
    \/ TwicePull \/ PullScpRecv \/ PullCreat \/ PullRead \/ PullClose
    \/ WaitSocket \/ TwiceReturn

SpecTwice == TwiceInit /\ [][TwiceNext]_vars

----------------------------------------------------------------------------
(***************************************************************************)
(* Spec: the driver entry points.                                          *)
(***************************************************************************)
TInitFiles ==
    /\ conn = "closed"
    /\ uuid_table = EmptyTable
    /\ local_file = NoFile
    /\ remote_file = NoFile
    /\ live \in SUBSET Ids
    /\ PIdle
    /\ ssh = NoSsh
    /\ peers = NoPeers
    /\ next_uuid = 1
    /\ last_op = NoOp

\* no history is kept
TInit == TInitFiles /\ first_uuid = <<>> /\ log = <<>>

\* the history is kept for every id
TInitHist == TInitFiles /\ first_uuid = [i \in Ids |-> ZERO_UUID] /\ log = <<>>

\* what is kept of the phypUUIDTable_Init of the connection, where it is
\* kept: its result and the branch it took
NoInit == [fn |-> "phypUUIDTable_Init", ret |-> -1, path |-> "none"]

\* the branch of phypUUIDTable_Init is kept
TInitPath == TInitFiles /\ first_uuid = <<>> /\ log = <<NoInit>>

\* what is kept of the last phypDomainDestroyFlags, where it is kept: the
\* exit status phypExecBuffer left for rmsyscfg
NoDestroy == [fn |-> "phypDomainDestroyFlags", exit_status |-> 0]

\* a connection that is open with a table of one or two lpars, written
\* and pushed; the exit status of rmsyscfg is kept
DestroyInit ==
    /\ conn = "open"
    /\ uuid_table \in TwiceTables
    /\ live = {uuid_table.lpars[i].id : i \in 1..uuid_table.nlpars}
    /\ local_file = phypUUIDTable_WriteFile(uuid_table, NoFile, "ok", 0).file
    /\ remote_file = local_file
    /\ next_uuid = uuid_table.nlpars + 1
    /\ last_op = NoOp
    /\ first_uuid = <<>>
    /\ PIdle
    /\ ssh = NoSsh
    /\ peers = NoPeers
    /\ log = <<NoDestroy>>

\* the exit statuses phypExec can leave for rmsyscfg when it returns an
\* output: 0 when the lpar was removed, 1 when it was not, and the preset
\* of line 168 when the close of the channel failed, removed or not
RmsyscfgStatuses(removed) == {IF removed THEN 0 ELSE 1, CLOSE_FAILED}

\* the exit status does not change what phypDomainDestroyFlags does unless
\* it is negative (3437): it is told apart only where it is kept
DestroyLogs(statuses) ==
    IF log = <<>> \/ log[1].fn # NoDestroy.fn THEN {log}
    ELSE {<<[NoDestroy EXCEPT !.exit_status = st]>> : st \in statuses}

\* a table with fewer allocated entries than nlpars is used: the loop over
\* nlpars entries dereferences a pointer that is not one, and the process
\* dies
Crashes ==
    /\ conn' = "closed"
    /\ uuid_table' = EmptyTable
    /\ last_op' = [NoOp EXCEPT !.op = "crash", !.died = TRUE]
    /\ UNCHANGED <<local_file, remote_file, live, next_uuid, first_uuid>>

\* phypConnectOpen (1060-1176): the ssh session, the system type query,
\* phypUUIDTable_Init and, on an HMC, the VIOS partition query.  Any failure
\* frees the table (1164) and the session; what Init wrote to the files
\* stays.
phypConnectOpen ==
    /\ conn = "closed"
    /\ UNCHANGED <<pvars, ssh, peers>>
    /\ \/ \* openSSHSession or phypGetSystemType fails (1117-1143)
          /\ last_op' = [NoOp EXCEPT !.op = "open", !.rc = -1]
          /\ UNCHANGED <<conn, uuid_table, local_file, remote_file, live,
                         next_uuid, first_uuid, log>>
       \/ \E in \in InitInputs :
          \E vios_ok \in BOOLEAN :
          \E r \in {phypUUIDTable_Init(EmptyTable, local_file, remote_file,
                                       next_uuid, in)} :
            LET ok   == r.ret = 0 /\ vios_ok
                dies == r.crash \/ (~ok /\ phypUUIDTable_Free(r.tab) = "crash")
            IN  /\ r.uuid <= MaxUuid + 1
                /\ (r.ret = 0 \/ vios_ok)
                /\ log' = IF log = <<>> THEN log
                          ELSE <<[NoInit EXCEPT !.ret = r.ret, !.path = r.path]>>
                /\ local_file' = r.local
                /\ remote_file' = r.remote
                /\ next_uuid' = r.uuid
                /\ conn' = IF ok THEN "open" ELSE "closed"
                /\ uuid_table' = IF ok THEN r.tab ELSE EmptyTable
                /\ last_op' = [NoOp EXCEPT !.op = "open",
                                 !.rc = IF ok THEN 0 ELSE -1,
                                 !.pull = IF r.path = "none" THEN "none" ELSE in.pull,
                                 !.path = r.path,
                                 !.num = in.num, !.got = in.got,
                                 !.init = r.ret, !.did = r.did,
                                 !.died = dies]
                /\ UNCHANGED <<live, first_uuid>>

\* phypConnectClose (1178-1195): phypUUIDTable_Free, the session, the socket
phypConnectClose ==
    /\ conn = "open"
    /\ UNCHANGED <<pvars, hist>>
    /\ IF phypUUIDTable_Free(uuid_table) = "crash"
       THEN Crashes
       ELSE /\ conn' = "closed"
            /\ uuid_table' = EmptyTable
            /\ last_op' = [NoOp EXCEPT !.op = "close"]
            /\ UNCHANGED <<local_file, remote_file, live, next_uuid, first_uuid>>

\* phypDomainLookupByID (3200-3225): phypGetLparUUID decides the result
phypDomainLookupByID ==
    /\ conn = "open"
    /\ UNCHANGED <<pvars, hist>>
    /\ IF ~Usable(uuid_table)
       THEN Crashes
       ELSE
       /\ \E lpar_id \in Ids \cup {TOMBSTONE} :
            LET r == phypGetLparUUID(uuid_table, lpar_id)
            IN  /\ last_op' = [NoOp EXCEPT !.op = "lookup", !.id = lpar_id,
                                 !.rc = r.rc, !.uuid = r.uuid]
                /\ first_uuid' =
                     IF /\ lpar_id \in DOMAIN first_uuid /\ lpar_id \in live
                        /\ r.rc = 0 /\ first_uuid[lpar_id] = ZERO_UUID
                     THEN [first_uuid EXCEPT ![lpar_id] = r.uuid]
                     ELSE first_uuid
       /\ UNCHANGED <<conn, uuid_table, local_file, remote_file, live, next_uuid>>

\* phypDomainCreateXML (3526-3578) with phypBuildLpar (3458-3524): the id
\* check against the table, mksyscfg, then phypUUIDTable_AddLpar.  A
\* non-negative exit status, zero or not, lets the add go ahead (3507).
\* The caller's def->id is the id the host gives the new lpar.
phypDomainCreateXML ==
    /\ conn = "open"
    /\ UNCHANGED <<pvars, hist>>
    /\ uuid_table.nlpars < MaxLen
    /\ next_uuid <= MaxUuid
    /\ IF ~Usable(uuid_table)
       THEN Crashes
       ELSE
       \E id \in Ids \ live :
       \/ \* the id is in the table (3555-3562), or phypExec failed (3507)
          /\ last_op' = [NoOp EXCEPT !.op = "create_refused", !.rc = -1]
          /\ UNCHANGED <<conn, uuid_table, local_file, remote_file, live,
                         next_uuid, first_uuid>>
       \/ /\ ~IdExists(uuid_table, id)
          /\ \E created \in BOOLEAN :
             \E alloc \in AllocOutcomes :
             \E pch \in (IF alloc = "ok" THEN PersistChoices(uuid_table.nlpars + 1)
                         ELSE {NoPersist}) :
             \E r \in {phypUUIDTable_AddLpar(uuid_table, local_file, remote_file,
                                             next_uuid, id, alloc, pch.wr, pch.ps)} :
                   /\ uuid_table' = r.tab
                   /\ local_file' = r.local
                   /\ remote_file' = r.remote
                   /\ live' = IF created THEN live \cup {id} ELSE live
                   /\ next_uuid' = next_uuid + 1
                   /\ last_op' = [NoOp EXCEPT !.op = "add", !.id = id,
                                    !.rc = r.ret, !.uuid = next_uuid,
                                    !.did = r.did]
                   /\ UNCHANGED <<conn, first_uuid>>

\* phypDomainDestroyFlags (3415-3450): rmsyscfg, then phypUUIDTable_RemLpar
\* unless the exit status is negative (3437).  rmsyscfg exits 0, and the
\* lpar is gone, only for an lpar that exists.
phypDomainDestroyFlags ==
    /\ conn = "open"
    /\ UNCHANGED <<pvars, ssh, peers>>
    /\ \E id \in Ids :
       \/ \* phypExec failed: exit_status < 0
          /\ last_op' = [NoOp EXCEPT !.op = "destroy_refused", !.rc = -1]
          /\ log' \in DestroyLogs({SSH_CMD_ERR})
          /\ UNCHANGED <<conn, uuid_table, local_file, remote_file, live,
                         next_uuid, first_uuid>>
       \/ \E removed \in (IF id \in live THEN BOOLEAN ELSE {FALSE}) :
          /\ live' = IF removed THEN live \ {id} ELSE live
          /\ first_uuid' = IF removed /\ id \in DOMAIN first_uuid
                           THEN [first_uuid EXCEPT ![id] = ZERO_UUID]
                           ELSE first_uuid
          /\ UNCHANGED next_uuid
          /\ log' \in DestroyLogs(RmsyscfgStatuses(removed))
          /\ \E oob \in OobChoices(uuid_table) :
               IF oob = "crash"
               THEN /\ conn' = "closed"
                    /\ uuid_table' = EmptyTable
                    /\ last_op' = [NoOp EXCEPT !.op = "crash", !.died = TRUE,
                                     !.touched = RemLparScan(uuid_table.nlpars)]
                    /\ UNCHANGED <<local_file, remote_file>>
               ELSE \E pch \in PersistChoices(uuid_table.nlpars) :
                    \E r \in {phypUUIDTable_RemLpar(uuid_table, local_file,
                                                    remote_file, id, pch.wr, pch.ps)} :
                          /\ uuid_table' = r.tab
                          /\ local_file' = r.local
                          /\ remote_file' = r.remote
                          /\ last_op' = [NoOp EXCEPT !.op = "remove", !.id = id,
                                           !.rc = r.ret, !.did = r.did,
                                           !.touched = RemLparScan(uuid_table.nlpars)]
                          /\ UNCHANGED conn

TNext ==
    \/ phypConnectOpen
    \/ phypConnectClose
    \/ phypDomainLookupByID
    \/ phypDomainCreateXML
    \/ phypDomainDestroyFlags

Spec == TInit /\ [][TNext]_vars

SpecHist == TInitHist /\ [][TNext]_vars

SpecPath == TInitPath /\ [][TNext]_vars

\* calls of phypDomainDestroyFlags on an open connection, one after the
\* other
SpecDestroy == DestroyInit /\ [][phypDomainDestroyFlags]_vars

----------------------------------------------------------------------------
(***************************************************************************)
(* Properties of the table, checked under Spec and SpecHist.               *)
(***************************************************************************)
Lookup(id) == phypGetLparUUID(uuid_table, id)

\* indices of the entries whose id is id
Matches(id) == {i \in 1..uuid_table.nlpars : uuid_table.lpars[i].id = id}

\* C1: after a successful init that counted every live lpar, every live
\* lpar whose uuid an earlier lookup returned is still looked up with that
\* same uuid
C1_UuidKeptAcrossInit ==
    (/\ last_op.op = "open" /\ last_op.rc = 0
     /\ uuid_table.nlpars = Cardinality(live) /\ Usable(uuid_table)) =>
        \A id \in DOMAIN first_uuid \cap live :
            first_uuid[id] # ZERO_UUID =>
                Lookup(id) = [rc |-> 0, uuid |-> first_uuid[id]]

\* C2: init takes the create branch only when Pull failed at copy-channel
\* open time; a failure after the channel was opened does not lead there
C2_FreshOnlyOnNotFound ==
    (last_op.op = "open" /\ last_op.path = "create") => last_op.pull = "no_channel"

----------------------------------------------------------------------------
(***************************************************************************)
(* Claims about phypExec and the transfer loops, under SpecProto.          *)
(***************************************************************************)
\* phypExec has returned an output
ExecReturned == fn = "exec" /\ pc = "done" /\ ret = "output"

\* C6: the output phypExec returns is the concatenation, in order, of the
\* bytes its successful reads delivered.
C6_OutputIsDelivered == ExecReturned => tex_ret = delivered

\* C7: an exit status equal to the failed-close value means the close
\* failed, so a caller can tell a failed close from a remote exit status;
\* in particular the system type computed from it is IVM only if the remote
\* command said so.
C7_SentinelMeansCloseFailed ==
    ExecReturned =>
        /\ (exit_status = CLOSE_FAILED => "close" \in hards)
        /\ (phypGetSystemType(exit_status) = IVM => remote_status = IVM)

C9_OneWaitPerWouldBlock ==
    (fn = "exec" /\ channel # "none") =>
        n_wait["open_session"] = n_eagain["open_session"]

\* C9 witness: the open step blocked once, a later read blocked too, and
\* phypExec has returned.
C9_Witness ==
    /\ ExecReturned
    /\ n_eagain["open_session"] = 1
    /\ n_wait["open_session"] = 1
    /\ n_eagain["read"] = 1
    /\ "wait" \notin hards

\* C10: whenever a libssh2 call of phypExec, Push or Pull has just
\* returned would-block, the function is about to call waitsocket and to
\* repeat that call afterwards; after any other negative result the
\* function is on its way out with an error.
C10_WaitThenRetry ==
    last.call \in Calls =>
        /\ (last.rc = LIBSSH2_ERROR_EAGAIN => pc = "wait" /\ resume = last.call)
        /\ (IsHard(last.rc) /\ fn \in {"push", "pull"} => pc = "done" /\ ret = "-1")

----------------------------------------------------------------------------
(***************************************************************************)
(* Claims about the blocks of phypUUIDTable_Push and the total of          *)
(* phypUUIDTable_Pull, under SpecProto.                                    *)
(***************************************************************************)
\* C11: when Push leaves the write loop of a block after a would-block
\* result or a write that took some bytes, the bytes the channel accepted
\* for the block sum to the block's length: no part of the block is
\* skipped.
C11_BlockSentWhole ==
    (/\ fn = "push" /\ pc = "fread" /\ last.call = "write"
     /\ (last.rc = LIBSSH2_ERROR_EAGAIN \/ last.rc > 0))
        => xfer.sent = xfer.blen

\* C12: phypUUIDTable_Push returns 0 only if the copy channel was opened
\* and no libssh2_channel_write returned a hard error.
C12_PushOkMeansWritesOk ==
    (fn = "push" /\ pc = "done" /\ ret = "0") =>
        (channel = "freed" /\ "write" \notin hards)

\* C14: phypUUIDTable_Pull returns 0 only when the bytes written to
\* ./uuid_table number the size libssh2_scp_recv reported.
C14_PullOkMeansWholeFile ==
    (fn = "pull" /\ pc = "done" /\ ret = "0") =>
        Len(local_file.data) = xfer.size

----------------------------------------------------------------------------
(***************************************************************************)
(* Claim about repeated pushes, under SpecTwice.                           *)
(***************************************************************************)
\* C13: when the same table has been pushed twice with success and pulled
\* after each push, no call having met a hard error and each pull giving a
\* faithful copy of the remote file, the two pulled copies are the same.
C13_TwoPushesSameCopy ==
    (/\ Len(log) = 4
     /\ \A i \in 1..4 : log[i].ret = "0" /\ log[i].clean
     /\ log[2].whole /\ log[4].whole)
        => log[2].data = log[4].data

----------------------------------------------------------------------------
(***************************************************************************)
(* Claims about phypUUIDTable_Init and the persisting of mutations, under  *)
(* Spec.  The listing of the host holds the ids of live; an open does not  *)
(* change live.                                                            *)
(***************************************************************************)
\* phypUUIDTable_Init has just returned r
InitReturned(r) == last_op.op = "open" /\ last_op.init = r

\* C15: phypUUIDTable_Init succeeds only if the count query answered the
\* number of ids the listing held, be it fewer or more.
C15_CountsMustAgree == InitReturned(0) => last_op.num = Cardinality(live)

\* C16: after an open that created the table there is one entry per listed
\* id, in the order of the listing, and the uuids of the entries are set
\* and pairwise distinct.
C16_FreshEntries ==
    (InitReturned(0) /\ last_op.rc = 0 /\ last_op.path = "create") =>
        LET n == last_op.got
            t == uuid_table
        IN  /\ t.nlpars = n /\ Len(t.lpars) = n
            /\ \A i \in 1..n : t.lpars[i].id = SortedSeq(live)[i]
            /\ \A i \in 1..n : t.lpars[i].uuid # ZERO_UUID
            /\ \A i, j \in 1..n : i # j => t.lpars[i].uuid # t.lpars[j].uuid

\* C17: after an open that loaded the remote table, with the count query
\* and the listing both answering the live ids, every live id is found by
\* a lookup.
C17_LoadCoversLiveIds ==
    (/\ InitReturned(0) /\ last_op.rc = 0 /\ last_op.path = "load"
     /\ last_op.num = Cardinality(live) /\ Usable(uuid_table)) =>
        \A id \in live : Lookup(id).rc = 0

\* C18: when both enumerations answer zero, phypUUIDTable_Init returns 0,
\* makes no pull, no write and no push, and leaves the table empty.
C18_EmptyInitDoesNothing ==
    (last_op.op = "open" /\ last_op.num = 0 /\ last_op.got = 0) =>
        /\ last_op.init = 0
        /\ last_op.did = <<>>
        /\ last_op.path = "none"
        /\ last_op.rc = 0 => (conn = "open" /\ uuid_table = EmptyTable)

\* C18 witness: such an open has succeeded while a remote table exists.
C18_Witness ==
    /\ last_op.op = "open" /\ last_op.num = 0 /\ last_op.got = 0
    /\ last_op.rc = 0 /\ conn = "open"
    /\ remote_file.exists /\ Len(remote_file.data) > 0

\* C19: an open succeeds only if no hard error occurred while the table
\* was initialised, and then the table has its entries.
C19_HardErrorFailsOpen ==
    (last_op.op = "open" /\ last_op.rc = 0) =>
        /\ last_op.pull \notin {"creat_fail", "wait_read_fail", "close_fail"}
        /\ Usable(uuid_table)

\* the pushes among the operations noted
Pushes(did) == {i \in 1..Len(did) : did[i] = "push"}

\* C20: the create path of an open, an add and a remove make at most one
\* push, none without a successful one, and, where the table is still
\* held, only after ./uuid_table holds the whole table.
C20_OnePushAfterWrite ==
    (\/ last_op.op \in {"add", "remove"}
     \/ last_op.op = "open" /\ last_op.path = "create") =>
        LET did == last_op.did
        IN  /\ Cardinality(Pushes(did)) <= 1
            /\ \A i \in Pushes(did) : i > 1 /\ did[i - 1] = "write"
            /\ (last_op.rc = 0 /\ last_op.init = IF last_op.op = "open" THEN 0 ELSE -1)
                   => Pushes(did) # {}
            /\ (Pushes(did) # {} /\ conn = "open") =>
                   local_file = [exists |-> TRUE,
                                 data |-> WriteRecords(uuid_table.lpars,
                                                       uuid_table.nlpars, 1)]

\* C20 witness: a remove has written and pushed the table.
C20_Witness ==
    /\ last_op.op = "remove" /\ last_op.rc = 0
    /\ last_op.did = <<"write", "push">>
    /\ uuid_table.nlpars = 2
    /\ remote_file.data = WriteRecords(uuid_table.lpars, uuid_table.nlpars, 1)

----------------------------------------------------------------------------
(***************************************************************************)
(* The bytes of ./uuid_table.  A record is the int id as it lies in memory *)
(* (434-436: little-endian two's complement on the hosts the driver runs   *)
(* on) followed by the VIR_UUID_BUFLEN bytes of the uuid (441).  The uuid  *)
(* numbered u is the one whose last byte is u and whose other bytes are 0. *)
(***************************************************************************)
\* sizeof(uuid_table->lpars[i]->id) and the length of a raw uuid
SIZEOF_INT == 4
VIR_UUID_BUFLEN == 16
RecordBytes == SIZEOF_INT + VIR_UUID_BUFLEN

\* an int read as if its sign bit were an ordinary bit of the value
BytesInt_NoSign(b) ==
    b[1] + 256 * b[2] + 65536 * b[3] + 16777216 * (b[4] % 128)

\* the int that read(fd, &id, sizeof(int)) finds in four bytes (620-623)
BytesInt(b) ==
    LET low == b[1] + 256 * b[2] + 65536 * b[3] + 16777216 * (b[4] % 128)
    IN  IF b[4] >= 128 THEN (low - 2147483647) - 1 ELSE low

\* the four bytes safewrite(fd, &id, sizeof(id)) writes (434-436)
IntBytes(x) ==
    LET y   == IF x < 0 THEN (x + 2147483647) + 1 ELSE x
        top == IF x < 0 THEN 128 ELSE 0
    IN  <<y % 256, (y \div 256) % 256, (y \div 65536) % 256,
          (y \div 16777216) + top>>

\* the bytes of a uuid and the uuid of VIR_UUID_BUFLEN bytes
UuidBytes(u) == [j \in 1..VIR_UUID_BUFLEN |-> IF j = VIR_UUID_BUFLEN THEN u ELSE 0]

BytesUuid(b) == b[VIR_UUID_BUFLEN]

RECURSIVE Image(_, _)
\* the bytes of a file of fields: ids at the odd places, uuids at the even
Image(data, j) ==
    IF j > Len(data) THEN <<>>
    ELSE (IF j % 2 = 1 THEN IntBytes(data[j]) ELSE UuidBytes(data[j]))
         \o Image(data, j + 1)

\* st_size of a file
FileSize(file) == Len(Image(file.data, 1))

RECURSIVE ReadBytes(_, _, _, _)
\* the loop of lines 618-636 on the bytes: a read that returns fewer bytes
\* than asked for ends it with -1
ReadBytes(bytes, nlpars, i, acc) ==
    LET off == (i - 1) * RecordBytes
    IN  IF i > nlpars THEN [ret |-> 0, lpars |-> acc]
        ELSE IF Len(bytes) < off + SIZEOF_INT THEN [ret |-> -1, lpars |-> acc]
        ELSE IF Len(bytes) < off + RecordBytes
             THEN [ret |-> -1,
                   lpars |-> Append(acc,
                       [id |-> BytesInt(SubSeq(bytes, off + 1, off + SIZEOF_INT)),
                        uuid |-> ZERO_UUID])]
        ELSE ReadBytes(bytes, nlpars, i + 1,
                 Append(acc,
                     [id |-> BytesInt(SubSeq(bytes, off + 1, off + SIZEOF_INT)),
                      uuid |-> BytesUuid(SubSeq(bytes, off + SIZEOF_INT + 1,
                                                off + RecordBytes))]))

(***************************************************************************)
(* SpecFile: phypUUIDTable_WriteFile and phypUUIDTable_ReadFile on the     *)
(* bytes, for every table of up to MaxLen entries.                         *)
(***************************************************************************)
\* ids of entries: the tombstone, small ids, ids that fill more than one
\* byte and the largest int
FileIds == {TOMBSTONE, 2147483647} \cup Ids \cup {255 + i : i \in Ids}

FileTables ==
    UNION {{[nlpars |-> n, lpars |-> l] :
              l \in [1..n -> [id : FileIds, uuid : 0..MaxUuid]]} : n \in 0..MaxLen}

FInit ==
    /\ conn = "open"
    /\ uuid_table \in FileTables
    /\ local_file = NoFile
    /\ remote_file = NoFile
    /\ live = {}
    /\ next_uuid = 1
    /\ last_op = NoOp
    /\ first_uuid = <<>>
    /\ PIdle
    /\ log = <<>>
    /\ ssh = NoSsh
    /\ peers = NoPeers

\* phypUUIDTable_WriteFile (421-458) with every write succeeding
FileWrite ==
    /\ ~local_file.exists
    /\ LET w == phypUUIDTable_WriteFile(uuid_table, local_file, "ok", 0)
       IN  local_file' = [exists |-> TRUE, data |-> Image(w.file.data, 1)]
    /\ UNCHANGED <<tonly, remote_file, pvars, hist>>

\* phypUUIDTable_ReadFile (600-645) with uuid_table->nlpars as it is
FileRead ==
    /\ local_file.exists
    /\ log = <<>>
    /\ LET r == ReadBytes(local_file.data, uuid_table.nlpars, 1, <<>>)
       IN  log' = <<[fn |-> "phypUUIDTable_ReadFile", ret |-> r.ret,
                     lpars |-> r.lpars]>>
    /\ UNCHANGED <<tonly, files, pvars, ssh, peers>>

FNext == FileWrite \/ FileRead

SpecFile == FInit /\ [][FNext]_vars

\* C22: a table written to ./uuid_table and read back with the same nlpars
\* gives the same entries in the same order, tombstones included.
C22_WriteThenRead ==
    log # <<>> => (log[1].ret = 0 /\ log[1].lpars = uuid_table.lpars)

\* C22 witness: a table of two entries, the first a tombstone, was written
\* and read back.
C22_Witness ==
    /\ log # <<>> /\ log[1].ret = 0
    /\ uuid_table.nlpars = 2
    /\ uuid_table.lpars[1] = [id |-> TOMBSTONE, uuid |-> ZERO_UUID]
    /\ uuid_table.lpars[2].id = 256 /\ uuid_table.lpars[2].uuid = MaxUuid
    /\ Len(local_file.data) = 2 * RecordBytes

----------------------------------------------------------------------------
(***************************************************************************)
(* Claims about the length of the file and of the table, under SpecPath:   *)
(* log[1] tells how the table of the connection came about.                *)
(***************************************************************************)
\* the connection is open after the step and its table was created
CreatedAfter == conn' = "open" /\ log'[1].ret = 0 /\ log'[1].path = "create"

\* the step is a call of op that succeeded
Succeeds(op) == last_op'.op = op /\ last_op'.rc = 0

C23_LengthNeverDecreases ==
    [][(conn = "open" /\ conn' = "open") =>
        /\ uuid_table'.nlpars >= uuid_table.nlpars
        /\ Len(uuid_table'.lpars) >= Len(uuid_table.lpars)
        /\ last_op'.op = "remove" =>
              /\ uuid_table'.nlpars = uuid_table.nlpars
              /\ Len(uuid_table'.lpars) = Len(uuid_table.lpars)
        /\ Succeeds("add") =>
              /\ uuid_table'.nlpars = uuid_table.nlpars + 1
              /\ Len(uuid_table'.lpars) = Len(uuid_table.lpars) + 1
      ]_vars

\* C23 witness: both entries of a table of two have been removed and the
\* table still has two entries.
C23_Witness ==
    /\ conn = "open" /\ last_op.op = "remove" /\ last_op.rc = 0
    /\ uuid_table.nlpars = 2 /\ Len(uuid_table.lpars) = 2
    /\ \A i \in 1..2 : uuid_table.lpars[i].id = TOMBSTONE

\* C30: a remove on a table of N entries reads and writes entries at the
\* indices 0 .. N-1 only.
C30_ScanWithinTable ==
    last_op.op = "remove" =>
        \A i \in last_op.touched : 0 <= i /\ i < uuid_table.nlpars

----------------------------------------------------------------------------
(***************************************************************************)
(* Claims about the channel and the readiness wait, under SpecProto.       *)
(***************************************************************************)
\* C26: when phypExec, phypUUIDTable_Push or phypUUIDTable_Pull returns,
\* with or without an error, the channel it opened is closed and freed.
C26_ChannelFreedOnReturn == pc = "done" => channel # "open"

\* C27: a waitsocket that was interrupted is no error: the function goes
\* back to the call that would have blocked; a waitsocket that failed
\* otherwise ends the function with an error.
C27_InterruptedWaitRetries ==
    last.call = "wait" =>
        /\ last.eintr =>
              /\ pc = resume /\ pc \notin {"done", "wait"}
              /\ n_eagain[resume] > 0
              /\ ret = "none" /\ "wait" \notin hards
        /\ (last.rc < 0 /\ ~last.eintr) =>
              /\ pc = "done" /\ ret \in {"NULL", "-1"}
              /\ fn = "exec" => exit_status = SSH_CMD_ERR

\* C27 witness: phypExec, having read part of the output, is back at
\* libssh2_channel_read after an interrupted wait.
C27_Witness ==
    /\ fn = "exec" /\ last.call = "wait" /\ last.eintr
    /\ pc = "read" /\ delivered # <<>>

----------------------------------------------------------------------------
(***************************************************************************)
(* SpecText: the wrappers phypExecBuffer and phypExecInt applied to what   *)
(* phypExec returned: ret, the text tex_ret and exit_status.               *)
(***************************************************************************)
\* outputs are texts of up to MaxText characters
MaxText == 3

Digits == {"0", "7"}
Chars == Digits \cup {"x", "\n"}
Texts == UNION {[1..n -> Chars] : n \in 0..MaxText}

RECURSIVE Strchr(_, _, _)
\* strchr(ret, c): the place of the first c at or after i, 0 for none
Strchr(str, c, i) ==
    IF i > Len(str) THEN 0
    ELSE IF str[i] = c THEN i ELSE Strchr(str, c, i + 1)

\* a wrapper that cuts the text whatever the exit status is
phypExecBuffer_AlwaysStrip(r, str, status, strip_newline) ==
    LET nl == Strchr(str, "\n", 1)
    IN  IF r = "NULL" THEN [ret |-> "NULL", str |-> <<>>]
        ELSE [ret |-> "output",
              str |-> IF strip_newline /\ nl # 0 THEN Prefix(str, nl - 1) ELSE str]

\* phypExecBuffer (205-226) after phypExec returned r with text str: for
\* exit status 0 and strip_newline the first newline becomes the end of
\* the text (219-223)
phypExecBuffer(r, str, status, strip_newline) ==
    LET nl == Strchr(str, "\n", 1)
    IN  IF r = "NULL" THEN [ret |-> "NULL", str |-> <<>>]
        ELSE IF status = 0 /\ strip_newline /\ nl # 0
             THEN [ret |-> "output", str |-> Prefix(str, nl - 1)]
        ELSE [ret |-> "output", str |-> str]

DigitValue(c) == IF c = "7" THEN 7 ELSE 0

RECURSIVE DigitsEnd(_, _)
\* the place behind the digits that start at i
DigitsEnd(str, i) ==
    IF i > Len(str) \/ str[i] \notin Digits THEN i ELSE DigitsEnd(str, i + 1)

RECURSIVE Strtol(_, _, _)
\* the number the digits before place end spell, read from place i on
Strtol(str, i, end) ==
    IF i >= end THEN 0
    ELSE DigitValue(str[end - 1]) + 10 * Strtol(str, i, end - 1)

\* a conversion that takes text after the number for an error
virStrToLong_i_Strict(str) ==
    LET end == DigitsEnd(str, 1)
    IN  IF end = 1 \/ end <= Len(str)
        THEN [ret |-> -1, result |-> 0, end |-> end]
        ELSE [ret |-> 0, result |-> Strtol(str, 1, end), end |-> end]

\* virStrToLong_i(str, &char_ptr, 10, result) as line 244 uses it: -1 when
\* no digits start the text, else 0 with the number and the place behind it
virStrToLong_i(str) ==
    LET end == DigitsEnd(str, 1)
    IN  IF end = 1
        THEN [ret |-> -1, result |-> 0, end |-> end]
        ELSE [ret |-> 0, result |-> Strtol(str, 1, end), end |-> end]

\* phypExecInt (231-249): warned tells whether the VIR_WARN of line 246
\* was made
phypExecInt(r, str, status) ==
    LET b == phypExecBuffer(r, str, status, TRUE)
        p == virStrToLong_i(b.str)
    IN  IF b.ret = "NULL" \/ status # 0
        THEN [ret |-> -1, result |-> 0, warned |-> FALSE]
        ELSE [ret |-> p.ret, result |-> p.result,
              warned |-> (p.ret = 0 /\ p.end <= Len(b.str))]

\* phypExec has returned: NULL with SSH_CMD_ERR, or a text with the exit
\* status of the command
TextInit ==
    /\ conn = "open"
    /\ uuid_table = EmptyTable
    /\ local_file = NoFile
    /\ remote_file = NoFile
    /\ live = {}
    /\ next_uuid = 1
    /\ last_op = NoOp
    /\ first_uuid = <<>>
    /\ log = <<>>
    /\ ssh = NoSsh
    /\ peers = NoPeers
    /\ fn = "exec"
    /\ pc = "done"
    /\ resume = "idle"
    /\ last = [call |-> "none", rc |-> 0, eintr |-> FALSE, fd |-> -1]
    /\ budget = MaxEagain
    /\ n_eagain = [c \in Calls |-> 0]
    /\ n_wait = [c \in Calls |-> 0]
    /\ hards = {}
    /\ buffer = [i \in 1..buffer_size |-> 0]
    /\ delivered = <<>>
    /\ reads_left = MaxReads
    /\ remote_status = 0
    /\ xfer = NoXfer
    /\ \/ /\ ret = "NULL" /\ tex_ret = <<>> /\ exit_status = SSH_CMD_ERR
          /\ channel = "none"
       \/ /\ ret = "output" /\ tex_ret \in Texts /\ exit_status \in ExitStatuses
          /\ channel = "freed"

\* a caller hands the result of phypExec through phypExecBuffer
TextExecBuffer ==
    /\ log = <<>>
    /\ \E strip_newline \in BOOLEAN :
         LET b == phypExecBuffer(ret, tex_ret, exit_status, strip_newline)
         IN  log' = <<[fn |-> "phypExecBuffer", strip_newline |-> strip_newline,
                       ret |-> b.ret, str |-> b.str]>>
    /\ UNCHANGED <<tonly, files, pvars, ssh, peers>>

\* a caller hands the result of phypExec through phypExecInt
TextExecInt ==
    /\ log = <<>>
    /\ LET r == phypExecInt(ret, tex_ret, exit_status)
       IN  log' = <<[fn |-> "phypExecInt", ret |-> r.ret, result |-> r.result,
                     warned |-> r.warned]>>
    /\ UNCHANGED <<tonly, files, pvars, ssh, peers>>

TextNext == TextExecBuffer \/ TextExecInt

SpecText == TextInit /\ [][TextNext]_vars

\* the wrapper fn has returned
Wrapped_By(f) == log # <<>> /\ log[1].fn = f

\* C24: for exit status 0 and strip_newline the text phypExecBuffer returns
\* is the text of phypExec up to its first newline, all of it if it has
\* none; in every other case it is the text of phypExec.
C24_CutAtFirstNewline ==
    (Wrapped_By("phypExecBuffer") /\ ret = "output") =>
        LET out == log[1].str
        IN  /\ log[1].ret = "output"
            /\ IF exit_status = 0 /\ log[1].strip_newline
               THEN /\ Len(out) <= Len(tex_ret)
                    /\ out = Prefix(tex_ret, Len(out))
                    /\ \A j \in 1..Len(out) : out[j] # "\n"
                    /\ Len(out) < Len(tex_ret) => tex_ret[Len(out) + 1] = "\n"
               ELSE out = tex_ret

\* C24 witness: a text with a newline in the middle was cut.
C24_Witness ==
    /\ Wrapped_By("phypExecBuffer") /\ log[1].strip_newline
    /\ exit_status = 0
    /\ tex_ret = <<"7", "\n", "x">> /\ log[1].str = <<"7">>

\* the text starts with n digits and no more
LeadsWith(str, n) ==
    /\ n <= Len(str)
    /\ \A j \in 1..n : str[j] \in Digits
    /\ n < Len(str) => str[n + 1] \notin Digits

----------------------------------------------------------------------------
(***************************************************************************)
(* SpecAuth: openSSHSession (891-1058), one action per stage, and the      *)
(* remote path phypUUIDTable_Push and phypUUIDTable_Pull build once the    *)
(* session exists.                                                         *)
(***************************************************************************)
LIBSSH2_ERROR_SOCKET_NONE == -1
LIBSSH2_ERROR_PUBLICKEY_UNRECOGNIZED == -8
LIBSSH2_ERROR_PUBLICKEY_UNVERIFIED == -19
LIBSSH2_ERROR_ALLOC == -6
LIBSSH2_ERROR_SOCKET_TIMEOUT == -30
\* a result of the authentication calls that openSSHSession does not name
LIBSSH2_ERROR_AUTHENTICATION_FAILED == -18

\* what libssh2_userauth_publickey_fromfile can answer
PublickeyResults ==
    {LIBSSH2_ERROR_NONE, LIBSSH2_ERROR_SOCKET_NONE,
     LIBSSH2_ERROR_PUBLICKEY_UNRECOGNIZED, LIBSSH2_ERROR_PUBLICKEY_UNVERIFIED,
     LIBSSH2_ERROR_ALLOC, LIBSSH2_ERROR_SOCKET_SEND,
     LIBSSH2_ERROR_SOCKET_TIMEOUT, LIBSSH2_ERROR_AUTHENTICATION_FAILED}

\* NULLSTR(s)
NULLSTR(str) == IF str = "NULL" THEN "<null>" ELSE str

\* virAsprintf(&remote_file, "/home/%s/libvirt_uuid_table",
\*             NULLSTR(conn->uri->user)) of lines 476-477 and 665-666
RemotePath(user) == <<"/home/", NULLSTR(user), "/libvirt_uuid_table">>

\* a key authentication whose every failure asks for the password
AuthAfter_AnyFailure(rc) ==
    IF rc = LIBSSH2_ERROR_NONE THEN "exit" ELSE "password"

\* the label keyboard_interactive (1000-1036): where rc of the key
\* authentication leads
AuthAfter(rc) ==
    CASE rc \in {LIBSSH2_ERROR_SOCKET_NONE, LIBSSH2_ERROR_PUBLICKEY_UNRECOGNIZED,
                 LIBSSH2_ERROR_PUBLICKEY_UNVERIFIED} -> "password"
      [] rc = LIBSSH2_ERROR_NONE -> "exit"
      [] rc \in {LIBSSH2_ERROR_ALLOC, LIBSSH2_ERROR_SOCKET_SEND,
                 LIBSSH2_ERROR_SOCKET_TIMEOUT} -> "err"
      [] OTHER -> "disconnect"

\* openSSHSession is called with a URI with or without a user, with or
\* without a callback, the key files being there or not
AuthInit ==
    /\ conn = "closed"
    /\ uuid_table = EmptyTable
    /\ local_file = NoFile
    /\ remote_file = NoFile
    /\ live = {}
    /\ next_uuid = 1
    /\ last_op = NoOp
    /\ first_uuid = <<>>
    /\ PIdle
    /\ log = <<>>
    /\ peers = NoPeers
    /\ \E user \in {"NULL", "alice"}, cb, keys \in BOOLEAN :
         ssh = [NoSsh EXCEPT !.user = user, !.cb = cb, !.keys = keys,
                             !.step = "username"]

\* the label err (1041-1048): the socket is closed and openSSHSession
\* returns NULL with the error it reported
SshFails(s, error) ==
    ssh' = [s EXCEPT !.step = "done", !.session = "none", !.error = error,
                     !.sock = IF @ = "open" THEN "closed" ELSE @]

\* the label disconnect (1038-1040): the session is disconnected and
\* freed, and the label err follows
SshDisconnects(s, error) ==
    SshFails([s EXCEPT !.held = IF @ = "allocated" THEN "freed" ELSE @], error)

\* lines 919-935: the user of the URI, else the user the callback gives
SshUsername ==
    /\ ssh.step = "username"
    /\ IF ssh.user # "NULL"
       THEN ssh' = [ssh EXCEPT !.username = ssh.user, !.step = "connect"]
       ELSE IF ~ssh.cb
       THEN SshFails(ssh, "VIR_ERR_AUTH_FAILED")
       ELSE \E u \in {"NULL", "bob"} :
              LET s == [ssh EXCEPT !.did = Append(@, "virAuthGetUsername")]
              IN  IF u = "NULL"
                  THEN SshFails(s, "VIR_ERR_AUTH_FAILED")
                  ELSE ssh' = [s EXCEPT !.username = u, !.step = "connect"]
    /\ UNCHANGED <<tonly, files, pvars, log, peers>>

\* lines 937-984: getaddrinfo and connect (no address, or no socket that
\* connects: every socket tried was closed at 957), libssh2_session_init
\* (NULL: label err) and libssh2_session_startup (failure: label
\* disconnect)
SshConnect ==
    /\ ssh.step = "connect"
    /\ \/ ssh' = [ssh EXCEPT !.step = "publickey", !.sock = "open",
                              !.held = "allocated"]
       \/ \E tried \in {"none", "closed"} :
             SshFails([ssh EXCEPT !.sock = tried], "VIR_ERR_INTERNAL_ERROR")
       \/ SshFails([ssh EXCEPT !.sock = "open"], "none")
       \/ SshDisconnects([ssh EXCEPT !.sock = "open", !.held = "allocated"],
                         "VIR_ERR_INTERNAL_ERROR")
    /\ UNCHANGED <<tonly, files, pvars, log, peers>>

\* lines 986-998: without the two key files rc is set to
\* LIBSSH2_ERROR_SOCKET_NONE and no call is made
SshPublickey ==
    /\ ssh.step = "publickey"
    /\ IF ~ssh.keys
       THEN ssh' = [ssh EXCEPT !.rc = LIBSSH2_ERROR_SOCKET_NONE,
                               !.step = "keyboard_interactive"]
       ELSE \E rc \in PublickeyResults :
              ssh' = [ssh EXCEPT !.rc = rc, !.step = "keyboard_interactive",
                                 !.did = Append(@, "libssh2_userauth_publickey_fromfile")]
    /\ UNCHANGED <<tonly, files, pvars, log, peers>>

\* lines 1000-1036: the password through the callback, or the end
SshKeyboardInteractive ==
    /\ ssh.step = "keyboard_interactive"
    /\ LET next == AuthAfter(ssh.rc)
       IN  CASE next = "exit" ->
                  ssh' = [ssh EXCEPT !.step = "done", !.session = "open"]
             [] next = "err" -> SshFails(ssh, "none")
             [] next = "disconnect" -> SshDisconnects(ssh, "none")
             [] OTHER ->
                  LET s == [ssh EXCEPT !.fallback = TRUE]
                  IN  IF ~ssh.cb
                      THEN SshDisconnects(s, "VIR_ERR_AUTH_FAILED")
                      ELSE \E password \in {"NULL", "secret"} :
                           \E rc \in {LIBSSH2_ERROR_NONE,
                                      LIBSSH2_ERROR_AUTHENTICATION_FAILED} :
                             LET g == [s EXCEPT !.did = Append(@, "virAuthGetPassword")]
                                 t == [g EXCEPT !.did = Append(@, "libssh2_userauth_password")]
                             IN  IF password = "NULL"
                                 THEN rc = LIBSSH2_ERROR_NONE
                                      /\ SshDisconnects(g, "VIR_ERR_AUTH_FAILED")
                                 ELSE IF rc # LIBSSH2_ERROR_NONE
                                 THEN SshDisconnects(t, "VIR_ERR_AUTH_FAILED")
                                 ELSE ssh' = [t EXCEPT !.step = "done",
                                                       !.session = "open"]
    /\ UNCHANGED <<tonly, files, pvars, log, peers>>

\* phypUUIDTable_Push builds its remote path (476-478)
SshPushPath ==
    /\ ssh.session = "open" /\ ssh.push_path = <<>>
    /\ ssh' = [ssh EXCEPT !.push_path = RemotePath(ssh.user)]
    /\ UNCHANGED <<tonly, files, pvars, log, peers>>

\* phypUUIDTable_Pull builds its remote path (665-667)
SshPullPath ==
    /\ ssh.session = "open" /\ ssh.pull_path = <<>>
    /\ ssh' = [ssh EXCEPT !.pull_path = RemotePath(ssh.user)]
    /\ UNCHANGED <<tonly, files, pvars, log, peers>>

\* phypConnectOpen after openSSHSession returned the session (1123-1151):
\* phypCapsInit, virDomainXMLOptionNew, phypGetSystemType,
\* phypUUIDTable_Init or phypGetVIOSPartitionID fails, and the label
\* failure (1155-1175) disconnects and frees the session and closes
\* connection_data->sock
SshOpenFails ==
    /\ ssh.step = "done" /\ ssh.session = "open"
    /\ \E why \in {"phypCapsInit", "phypGetSystemType", "phypUUIDTable_Init"} :
         ssh' = [ssh EXCEPT !.step = "failed", !.session = "none",
                            !.held = "freed", !.sock = "closed",
                            !.did = Append(@, why)]
    /\ UNCHANGED <<tonly, files, pvars, log, peers>>

AuthNext ==
    \/ SshUsername \/ SshConnect \/ SshPublickey \/ SshKeyboardInteractive
    \/ SshPushPath \/ SshPullPath \/ SshOpenFails

SpecAuth == AuthInit /\ [][AuthNext]_vars

\* openSSHSession has returned after the key authentication was decided
AuthDecided == ssh.step = "done" /\ (ssh.rc # 0 \/ ssh.session = "open")

\* the calls made among those noted
Made(call) == \E i \in 1..Len(ssh.did) : ssh.did[i] = call

\* C28: the password branch is taken exactly when the key files are absent
\* or the key authentication answered SOCKET_NONE, PUBLICKEY_UNRECOGNIZED or
\* PUBLICKEY_UNVERIFIED; after ALLOC, SOCKET_SEND or SOCKET_TIMEOUT no
\* password is asked for and no session is returned; the password branch
\* without a callback reports VIR_ERR_AUTH_FAILED and returns no session.
C28_PasswordFallback ==
    AuthDecided =>
        /\ ssh.fallback <=>
              \/ ~ssh.keys
              \/ ssh.rc \in {LIBSSH2_ERROR_SOCKET_NONE,
                             LIBSSH2_ERROR_PUBLICKEY_UNRECOGNIZED,
                             LIBSSH2_ERROR_PUBLICKEY_UNVERIFIED}
        /\ ~ssh.fallback =>
              /\ ~Made("virAuthGetPassword")
              /\ ~Made("libssh2_userauth_password")
        /\ (ssh.keys /\ ssh.rc \in {LIBSSH2_ERROR_ALLOC, LIBSSH2_ERROR_SOCKET_SEND,
                                    LIBSSH2_ERROR_SOCKET_TIMEOUT}) =>
              ~ssh.fallback /\ ssh.session = "none"
        /\ (ssh.fallback /\ ~ssh.cb) =>
              /\ ssh.session = "none" /\ ssh.error = "VIR_ERR_AUTH_FAILED"
              /\ ~Made("libssh2_userauth_password")

\* C28 witness: the key was not verified and the password of the callback
\* opened the session.
C28_Witness ==
    /\ ssh.step = "done" /\ ssh.keys /\ ssh.cb
    /\ ssh.rc = LIBSSH2_ERROR_PUBLICKEY_UNVERIFIED
    /\ ssh.fallback /\ ssh.session = "open"
    /\ ssh.did = <<"libssh2_userauth_publickey_fromfile", "virAuthGetPassword",
                   "libssh2_userauth_password">>

\* C29: the remote path of push and of pull names the home directory of
\* the user the session was authenticated as.
C29_PathOfAuthenticatedUser ==
    ssh.session = "open" =>
        /\ ssh.push_path # <<>> =>
              ssh.push_path = <<"/home/", ssh.username, "/libvirt_uuid_table">>
        /\ ssh.pull_path # <<>> =>
              ssh.pull_path = <<"/home/", ssh.username, "/libvirt_uuid_table">>

----------------------------------------------------------------------------
(***************************************************************************)
(* Claims about what a mutation leaves of the table and of its copies,     *)
(* under Spec.                                                             *)
(***************************************************************************)
\* C31: a remove(id) that returns makes of every entry whose id is id the
\* tombstone (-1, zero uuid) and leaves every other entry, with its id, its
\* uuid and its place, as it was.
C31_RemoveTouchesOnlyMatches ==
    [][(last_op'.op = "remove" /\ conn = "open") =>
        /\ uuid_table'.nlpars = uuid_table.nlpars
        /\ Len(uuid_table'.lpars) = Len(uuid_table.lpars)
        /\ \A i \in 1..Len(uuid_table.lpars) :
              uuid_table'.lpars[i] =
                 IF uuid_table.lpars[i].id = last_op'.id
                 THEN [id |-> TOMBSTONE, uuid |-> ZERO_UUID]
                 ELSE uuid_table.lpars[i]
      ]_vars

\* C31 witness: lpar 1 was removed from a table of two; its entry is the
\* tombstone and the entry of lpar 2 behind it has its id and its uuid.
C31_Witness ==
    /\ last_op.op = "remove" /\ last_op.id = 1
    /\ uuid_table.nlpars = 2
    /\ uuid_table.lpars[1] = [id |-> TOMBSTONE, uuid |-> ZERO_UUID]
    /\ uuid_table.lpars[2].id = 2 /\ uuid_table.lpars[2].uuid # ZERO_UUID
    /\ 1 \notin live /\ 2 \in live

\* the fields of the table as phypUUIDTable_WriteFile lays them out
TableRecords == WriteRecords(uuid_table.lpars, uuid_table.nlpars, 1)

\* C32: after every open, add or remove that succeeded, the table in
\* memory, ./uuid_table and the remote copy hold the same records in the
\* same order.
C32_CopiesAgree ==
    (/\ last_op.op \in {"open", "add", "remove"} /\ last_op.rc = 0
     /\ conn = "open" /\ Usable(uuid_table)) =>
        /\ local_file.data = TableRecords
        /\ remote_file.data = TableRecords

\* C33: in every state the table's nlpars is the number of allocated
\* entries of its array, after a failed init and a failed add too; the
\* release of the table after a failed init touches allocated entries only.
C33_CountIsAllocated ==
    /\ uuid_table.nlpars = Len(uuid_table.lpars)
    /\ last_op.op = "open" => ~last_op.died

\* C34: an add or a remove that returns an error because the write of
\* ./uuid_table or the push failed leaves the table in memory as it was
\* before the call, so that every lookup answers as before.
C34_FailedMutationRollsBack ==
    [][(/\ last_op'.op \in {"add", "remove"} /\ last_op'.rc = -1
        /\ last_op'.did # <<>>) =>
           /\ uuid_table' = uuid_table
           /\ \A id \in Ids :
                 phypGetLparUUID(uuid_table', id) = phypGetLparUUID(uuid_table, id)
      ]_vars

----------------------------------------------------------------------------
(***************************************************************************)
(* Claim about phypDomainDestroyFlags, under SpecDestroy: log[1] holds the *)
(* exit status of the rmsyscfg of the last call.                           *)
(***************************************************************************)
\* C35: phypDomainDestroyFlags tombstones an entry only when rmsyscfg ended
\* with exit status 0; after any other exit status, the one of a failed
\* close included, it returns -1 and the table and both files are as
\* before.
C35_RemoveOnlyAfterExitZero ==
    [][(/\ last_op'.op \in {"remove", "destroy_refused"}
        /\ log'[1].exit_status # 0) =>
           /\ last_op'.op = "destroy_refused" /\ last_op'.rc = -1
           /\ UNCHANGED <<uuid_table, local_file, remote_file>>
      ]_vars

----------------------------------------------------------------------------
(***************************************************************************)
(* Claim about the write loop of phypUUIDTable_Push, under SpecProto.      *)
(***************************************************************************)
\* C36: whenever Push is about to call libssh2_channel_write, ptr is the
\* number of bytes of the block the channel has accepted and nread the
\* number still unsent, so ptr + nread is within the block; and nread
\* never wraps below zero.
C36_WriteWithinBlock ==
    fn = "push" =>
        /\ ~Wrapped(xfer.nread)
        /\ pc = "write" =>
              /\ xfer.ptr = xfer.sent
              /\ xfer.nread = xfer.blen - xfer.sent
              /\ xfer.ptr + xfer.nread <= xfer.blen

----------------------------------------------------------------------------
(***************************************************************************)
(* Claim about termination, under SpecProtoFair.                           *)
(***************************************************************************)
\* C37: with would-block answers that come to an end and waits that
\* return, phypExec, phypUUIDTable_Push and phypUUIDTable_Pull, once
\* called, return a result, whatever the reads and writes deliver.
C37_CallReturns == (fn # "none") ~> (pc = "done")

----------------------------------------------------------------------------
(***************************************************************************)
(* Claim about the descriptor of the readiness wait, under SpecProto.      *)
(***************************************************************************)
\* C38: every waitsocket of phypExec, phypUUIDTable_Push and
\* phypUUIDTable_Pull polls the socket of the connection.
C38_WaitsOnOwnSocket == last.call = "wait" => last.fd = ConnSock

----------------------------------------------------------------------------
(***************************************************************************)
(* SpecShared: two connections of one process, each to a host of its own   *)
(* and each driven by one thread.  A mutation is the change in memory,     *)
(* then phypUUIDTable_WriteFile, then phypUUIDTable_Push (557-563,         *)
(* 588-594); a load is phypUUIDTable_Pull, then phypUUIDTable_ReadFile     *)
(* (783, 805).  Every one of them names the file "./uuid_table" (428, 472, *)
(* 607, 661) of the working directory of the process; no lock is taken.    *)
(* The transfers and the file operations all succeed.                      *)
(***************************************************************************)
Conns == {1, 2}

\* the table of connection c: n lpars, whose uuids are c
PeerTables(c) ==
    {[nlpars |-> n, lpars |-> [i \in 1..n |-> [id |-> i, uuid |-> c]]] :
        n \in 1..MaxLen}

SharedInit ==
    /\ conn = "closed"
    /\ uuid_table = EmptyTable
    /\ local_file = NoFile
    /\ remote_file = NoFile
    /\ live = {}
    /\ next_uuid = 1
    /\ last_op = NoOp
    /\ first_uuid = <<>>
    /\ PIdle
    /\ log = <<>>
    /\ ssh = NoSsh
    /\ \E t1 \in PeerTables(1), t2 \in PeerTables(2) :
         peers = [c \in Conns |->
                    LET t == IF c = 1 THEN t1 ELSE t2
                    IN  [pc |-> "idle", uuid_table |-> t,
                         remote_file |->
                             phypUUIDTable_WriteFile(t, NoFile, "ok", 0).file,
                         pulled |-> <<>>, done |-> "none"]]

\* the thread of connection c enters phypUUIDTable_RemLpar, which marks the
\* entries (550-555), or phypUUIDTable_Init on the load path
PeerCall(c) ==
    /\ peers[c].pc = "idle"
    /\ \/ \E id \in Ids :
            peers' = [peers EXCEPT
                        ![c].uuid_table.lpars =
                            Tombstone(@, peers[c].uuid_table.nlpars, id, 1),
                        ![c].pc = "write", ![c].done = "none"]
       \/ peers' = [peers EXCEPT ![c].pc = "pull", ![c].done = "none"]
    /\ UNCHANGED <<tonly, files, pvars, log, ssh>>

\* phypUUIDTable_WriteFile of connection c (557, 588, 799)
PeerWriteFile(c) ==
    /\ peers[c].pc = "write"
    /\ local_file' =
          phypUUIDTable_WriteFile(peers[c].uuid_table, local_file, "ok", 0).file
    /\ peers' = [peers EXCEPT ![c].pc = "push"]
    /\ UNCHANGED <<tonly, remote_file, pvars, log, ssh>>

\* phypUUIDTable_Push of connection c (560, 591, 802): ./uuid_table as it
\* is goes to the host of c
PeerPush(c) ==
    /\ peers[c].pc = "push"
    /\ peers' = [peers EXCEPT
                   ![c].remote_file =
                       phypUUIDTable_Push(local_file, @, "sent", 0).remote,
                   ![c].pc = "idle", ![c].done = "push"]
    /\ UNCHANGED <<tonly, files, pvars, log, ssh>>

\* phypUUIDTable_Pull of connection c (783): the copy on the host of c
\* goes to ./uuid_table
PeerPull(c) ==
    /\ peers[c].pc = "pull"
    /\ local_file' =
          phypUUIDTable_Pull(peers[c].remote_file, local_file, "complete", 0).local
    /\ peers' = [peers EXCEPT ![c].pulled = peers[c].remote_file.data,
                              ![c].pc = "read"]
    /\ UNCHANGED <<tonly, remote_file, pvars, log, ssh>>

\* phypUUIDTable_ReadFile of connection c (805): nlpars records of
\* ./uuid_table as it is become the table of c
PeerReadFile(c) ==
    /\ peers[c].pc = "read"
    /\ LET n == peers[c].uuid_table.nlpars
           r == phypUUIDTable_ReadFile(n, local_file, "ok")
       IN  peers' = [peers EXCEPT
                       ![c].uuid_table = [nlpars |-> n, lpars |-> Pad(r.lpars, n)],
                       ![c].pc = "idle", ![c].done = "read"]
    /\ UNCHANGED <<tonly, files, pvars, log, ssh>>

SharedNext ==
    \E c \in Conns :
        \/ PeerCall(c) \/ PeerWriteFile(c) \/ PeerPush(c)
        \/ PeerPull(c) \/ PeerReadFile(c)

SpecShared == SharedInit /\ [][SharedNext]_vars

\* C39: when two connections run their table operations side by side, what
\* a connection has pushed to its host is the serialisation of its own
\* table, and the entries it has loaded are the records it pulled from its
\* own host.
C39_OwnTableOwnHost ==
    \A c \in Conns :
        LET t == peers[c].uuid_table
        IN  /\ peers[c].done = "push" =>
                  peers[c].remote_file.data = WriteRecords(t.lpars, t.nlpars, 1)
            /\ peers[c].done = "read" =>
                  t.lpars = ReadRecords(peers[c].pulled, t.nlpars, 1, <<>>).lpars

----------------------------------------------------------------------------
(***************************************************************************)
(* Claim about what a failed open keeps, under SpecAuth.                   *)
(***************************************************************************)
\* the open has failed: openSSHSession returned NULL, or a later step of
\* phypConnectOpen went to the label failure
OpenFailed ==
    \/ ssh.step = "done" /\ ssh.session = "none"
    \/ ssh.step = "failed"

\* C40: after a failed open, whichever step failed, no socket is open and
\* no session of libssh2 is allocated.
C40_FailedOpenReleasesAll ==
    OpenFailed => ssh.sock # "open" /\ ssh.held # "allocated"
====
